---- MODULE Spec2Model ----
(***************************************************************************)
(* Verification model of the tarot reader's conversation engine:           *)
(*   - the chat endpoint    (app/src/app/api/chat/route.ts, POST)          *)
(*   - the Turn Controller  (app/src/app/api/chat/route.ts, processChat)   *)
(*   - the Draw Engine      (app/src/app/api/rng/draw/route.ts, drawCards) *)
(*   - the Interpretation Handoff (app/src/app/api/chat/thinking.ts)       *)
(*   - the caller           (app/src/hooks/useChat.ts, ChatUIContext.tsx)  *)
(*   - the summarize endpoint (app/src/app/api/chat/summarize/route.ts,    *)
(*                             app/src/lib/summarization.ts)               *)
(* Spec / FairSpec run one Turn of processChat; ChatSpec one request to    *)
(* the chat endpoint with its Turn; DrawSpec one POST /api/rng/draw        *)
(* request; ThinkSpec one interpretation; ClientSpec a session of the      *)
(* useChat hook; UISpec the spread history of the interface; AssemblySpec  *)
(* the assembly of the tool calls of one streamed response; SummarizeSpec  *)
(* one request to the summarize endpoint.                                  *)
(***************************************************************************)
EXTENDS Integers, Sequences, FiniteSets, TLC

VARIABLES
    \* ---- POST /api/chat ----
    ppc,                      \* position of POST
    request,                  \* the request POST is given
    chatStatus,               \* HTTP status of the response (0 = not answered yet)
    systemContent,            \* let systemContent (the pieces concatenated, in order)
    \* ---- Turn Controller (processChat) ----
    pc,                       \* position of processChat
    toolIterations,           \* let toolIterations
    toolCalls,                \* let toolCalls (of the current iteration)
    toolIdx,                  \* position of the for..of over toolCalls
    hasCalledInterpretation,  \* let hasCalledInterpretation
    currentActiveSpread,      \* let currentActiveSpread (reading id, 0 = undefined)
    currentLedger,            \* let currentLedger (reading ids of the entries)
    openaiMessages,           \* const openaiMessages
    totalToolCalls,           \* let totalToolCalls
    thinkingCalls,            \* let thinkingCalls
    handoffs,                 \* number of requestThinkingInterpretation(context) calls
    interpretation,           \* let interpretation (the chunks of the last handoff)
    context,                  \* const context (the InterpretationContext of the last handoff)
    modelCalls,               \* number of openai.chat.completions.create calls of the loop
    nextReadingId,            \* source of fresh uuidv4 reading ids
    laid,                     \* the spreads executeDrawCards returned: positions and cards
    drawRequests,             \* number of fetches of /api/rng/draw by executeDrawCards
    faults,                   \* faulty inputs this Turn has met so far
    events,                   \* everything passed to send(), in order
    closed,                   \* close() was called
    \* ---- Draw Engine (POST /api/rng/draw, drawCards) ----
    dpc,                      \* position of POST / drawCards
    n,                        \* request body: n
    allowDuplicates,          \* request body: allowDuplicates
    allowReversals,           \* request body: allowReversals
    tier,                     \* position of the for..of over methods (1..3)
    pending,                  \* numbers of the current batch not yet processed
    draws,                    \* const draws
    usedBaseCards,            \* const usedBaseCards
    attempts,                 \* const attempts
    drawnBy,                  \* the method whose numbers gave each element of draws
    drawnFrom,                \* the raw value that gave each element of draws
    twin,                     \* draws and usedBaseCards of the same loop over the same
                              \* numbers with allowReversals = true
    status,                   \* HTTP status of the response (0 = not answered yet)
    \* ---- Interpretation Handoff (requestThinkingInterpretation) ----
    tpc,                      \* position of the generator
    spreadCards,              \* context.activeSpread.cards
    providerCalls,            \* number of openai.chat.completions.create calls
    yielded,                  \* everything the generator has yielded, in order
    cardIdx,                  \* position of the for..of over the cards (fallback)
    \* ---- Caller (useChat, ChatUIContext) ----
    messages,                 \* useState: messages
    isLoading,                \* useState: isLoading
    spreadLedger,             \* useState: spreadLedger
    conversationSummary,      \* useState: conversationSummary ("null" = null)
    spreadHistory,            \* ChatUIContext: spreadHistory
    currentSpreadIndex,       \* ChatUIContext: currentSpreadIndex
    calls,                    \* the sendMessage calls: position and locals of each
    nextCall,                 \* number of the next sendMessage call
    requests,                 \* the bodies of the POST /api/chat requests, in order
    interpreted,              \* readings whose interpretation a finished Turn completed
    \* ---- Tool call assembly (processChat, for await over the response) ----
    apc,                      \* position of the for await over the chunks
    deltaStream,              \* the tool call deltas of the response, in order
    deltaIdx,                 \* number of deltas taken so far
    assembled,                \* let toolCalls (while the response streams)
    currentToolIndex,         \* let currentToolIndex
    \* ---- POST /api/chat/summarize (summarizeConversation) ----
    upc,                      \* position of POST / summarizeConversation
    sumBody,                  \* the request body
    sumResult,                \* what summarizeConversation returned
    sumStatus                 \* HTTP status of the response (0 = not answered yet)

chatVars == <<ppc, request, chatStatus, systemContent>>
turnVars == <<pc, toolIterations, toolCalls, toolIdx, hasCalledInterpretation,
              currentActiveSpread, currentLedger, openaiMessages, totalToolCalls,
              thinkingCalls, handoffs, interpretation, context, modelCalls,
              nextReadingId, laid, drawRequests, faults, events, closed>>
drawVars == <<dpc, n, allowDuplicates, allowReversals, tier, pending, draws,
              usedBaseCards, attempts, drawnBy, drawnFrom, twin, status>>
thinkVars == <<tpc, spreadCards, providerCalls, yielded, cardIdx>>
clientVars == <<messages, isLoading, spreadLedger, conversationSummary, spreadHistory,
                currentSpreadIndex, calls, nextCall, requests, interpreted>>
assemblyVars == <<apc, deltaStream, deltaIdx, assembled, currentToolIndex>>
summarizeVars == <<upc, sumBody, sumResult, sumStatus>>
vars == <<chatVars, turnVars, drawVars, thinkVars, clientVars, assemblyVars, summarizeVars>>

(***************************************************************************)
(* Bounds of the model                                                     *)
(***************************************************************************)
\* most tool calls the conversation model emits in one response
MaxBatch == 2
\* most tool calls the conversation model emits over one Turn
MaxToolCalls == 5
\* most faulty inputs one Turn meets before it ends: tool calls the model gets
\* wrong (unknown tool, malformed arguments), failed draws, failed
\* interpretation provider calls
MaxFaults == 1
\* largest valid n of a draw request
MaxN == 2
\* most cards of the spread handed to the interpretation model
MaxCards == 2
\* most text chunks the interpretation provider streams
MaxChunks == 2
\* most sendMessage calls of a session that are followed
MaxSends == 2
\* most messages the session holds when the first of these calls is made
MaxHistory == 21
\* most spreads added to the spread history of the interface
MaxSpreads == 4
\* number of different spreads that can be added
MaxSpreadId == 3
\* most tool call deltas of one response of the conversation model
MaxDeltas == 4
\* largest index of a tool call in one response
MaxToolIndex == 1
\* a small threshold a summarize request can name
SmallThreshold == 2
\* most messages above the default threshold a summarize request carries
MaxOverThreshold == 2

(***************************************************************************)
(* Program constants                                                       *)
(***************************************************************************)
maxToolIterations == 5
SUMMARIZATION_THRESHOLD == 20
KEEP_RECENT == 3
TOTAL_CARDS == 78
TOTAL_ORIENTED_STATES == 156
UINT16_MAX == 65536
REJECTION_LIMIT == (UINT16_MAX \div TOTAL_ORIENTED_STATES) * TOTAL_ORIENTED_STATES

(***************************************************************************)
(* Helpers                                                                 *)
(***************************************************************************)
Last(s) == s[Len(s)]

SeqsUpTo(S, k) == UNION { [1..m -> S] : m \in 0..k }

NoSpread == 0

\* mutant of LastK: nothing is cut off
LastKWhole(s, k) == s

\* suffix of a sequence: s.slice(-k)
LastK(s, k) == IF Len(s) <= k THEN s ELSE SubSeq(s, Len(s) - k + 1, Len(s))

(***************************************************************************)
(* POST /api/chat: the request and the system context                      *)
(***************************************************************************)
\* the pieces a model input is concatenated from
Piece(kind, summary, spread, ledger, msgs) ==
    [kind |-> kind, summary |-> summary, spread |-> spread, ledger |-> ledger,
     messages |-> msgs]

\* MINI_SYSTEM_PROMPT
PersonaText == Piece("persona", "", NoSpread, <<>>, <<>>)

\* '\n\n---\n\n'
SectionMarker == Piece("marker", "", NoSpread, <<>>, <<>>)

\* '## Summary of Earlier Conversation\n' + conversationSummary
SummarySection(summary) == Piece("summary", summary, NoSpread, <<>>, <<>>)

\* formatSpreadForAI(spreadWithCards): '## Current Spread: ...'
formatSpreadForAI(spreadWithCards) == Piece("spread", "", spreadWithCards, <<>>, <<>>)

\* formatLedgerForAI(ledger): '## Previous Spreads in This Session ...'
formatLedgerForAI(ledger) == Piece("ledger", "", NoSpread, ledger, <<>>)

\* if (conversationSummary): neither undefined, null ("null") nor the empty string
Truthy(str) == str \notin {"null", ""}

\* mutant of SystemContent: the ledger section is put before the spread section
SystemContentLedgerFirst(summary, spread, ledger) ==
    <<PersonaText>>
      \o (IF Truthy(summary) THEN <<SectionMarker, SummarySection(summary)>> ELSE <<>>)
      \o (IF ledger # <<>> THEN <<SectionMarker, formatLedgerForAI(ledger)>> ELSE <<>>)
      \o (IF spread # NoSpread THEN <<SectionMarker, formatSpreadForAI(spread)>> ELSE <<>>)

\* let systemContent = MINI_SYSTEM_PROMPT; systemContent += ... (three times)
SystemContent(summary, spread, ledger) ==
    <<PersonaText>>
      \o (IF Truthy(summary) THEN <<SectionMarker, SummarySection(summary)>> ELSE <<>>)
      \o (IF spread # NoSpread THEN <<SectionMarker, formatSpreadForAI(spread)>> ELSE <<>>)
      \o (IF ledger # <<>> THEN <<SectionMarker, formatLedgerForAI(ledger)>> ELSE <<>>)

\* a history of k messages that ends with a message of the user
Msgs(k) ==
    [i \in 1..k |-> [role |-> IF (k - i) % 2 = 0 THEN "user" ELSE "assistant",
                     content |-> ToString(i)]]

\* what POST is given: whether OPENAI_API_KEY is set, whether the body is JSON,
\* and the four fields of the body (hasMessages: the body has a messages field;
\* an undefined spreadLedger takes the branches of an empty one)
ChatRequest(apiKey, json, has, msgs, spread, ledger, summary) ==
    [apiKey |-> apiKey, json |-> json, hasMessages |-> has, messages |-> msgs,
     activeSpread |-> spread, spreadLedger |-> ledger, conversationSummary |-> summary]

ChatRequests ==
    { ChatRequest(k, j, h, m, a, l, c) :
          k \in BOOLEAN, j \in BOOLEAN, h \in BOOLEAN, m \in {<<>>, Msgs(1)},
          a \in {NoSpread, 1}, l \in {<<>>, <<7>>}, c \in {"null", "", "summary0"} }

\* the requests whose Turn is followed on its own: a first message, and a
\* message late in a session with a spread on the table
TurnRequests ==
    { ChatRequest(TRUE, TRUE, TRUE, Msgs(1), NoSpread, <<>>, "null"),
      ChatRequest(TRUE, TRUE, TRUE, Msgs(MaxHistory), 1, <<>>, "summary0") }

NoRequest == ChatRequest(FALSE, FALSE, FALSE, <<>>, NoSpread, <<>>, "null")

\* const openaiMessages = [{ role: 'system', content: systemContent }, ...messages.map(...)]
InitialMessages(msgs) ==
    << [role |-> "system", id |-> 0, content |-> "context"] >>
      \o [i \in 1..Len(msgs) |-> [role |-> msgs[i].role, id |-> 0, content |-> msgs[i].content]]

\* no InterpretationContext was built yet
NoContext ==
    [activeSpread |-> NoSpread, messages |-> <<>>, spreadLedger |-> <<>>,
     conversationSummary |-> "null"]

(***************************************************************************)
(* Turn Controller                                                         *)
(***************************************************************************)
ToolNames == {"list_spreads", "draw_cards", "request_interpretation", "bogus_tool"}

\* What the conversation model can put into one tool call: a tool name and
\* an argument text that is valid JSON ("ok") or not JSON at all ("malformed").
ToolInputs ==
    { [name |-> nm, args |-> "ok"] : nm \in ToolNames }
      \cup { [name |-> "draw_cards", args |-> "malformed"] }

\* a tool call the conversation model got wrong
Faulty(input) == input.name \notin {"list_spreads", "draw_cards", "request_interpretation"}
                   \/ input.args = "malformed"

FaultsIn(batch) == Cardinality({ i \in 1..Len(batch) : Faulty(batch[i]) })

\* the events send() is given: type, tool call id, tool name, content (text or
\* result text) and, for spread_laid, the reading laid
Event(t, i, nm, c, r) == [type |-> t, id |-> i, name |-> nm, content |-> c, reading |-> r]

TextEvent(c)       == Event("text", 0, "", c, 0)
DoneEvent          == Event("done", 0, "", "", 0)
ErrorEvent         == Event("error", 0, "", "", 0)
ToolCallEvent(tc)  == Event("tool_call", tc.id, tc.name, "", 0)
SpreadLaidEvent(r) == Event("spread_laid", 0, "", "", r)
\* the tool_result event names the tool and carries no call id
ToolResultEvent(tc, res) == Event("tool_result", 0, tc.name, res, 0)

ToolMessage(tc, res) == [role |-> "tool", id |-> tc.id, content |-> res]

\* static tool results of processChat
AlreadyProvided == "SYSTEM: Interpretation already provided. Do not call this again."
NoSpreadLaid    == "Error: No spread has been laid yet. Please draw cards first."
HandoffResult   == "SYSTEM: You have just shared a complete interpretation with the user."
UnknownTool     == "Unknown tool"

\* processChat up to its first await, for a request POST accepted
TurnInit ==
    /\ ppc = "returned"
    /\ request \in TurnRequests
    /\ chatStatus = 200
    /\ systemContent = SystemContent(request.conversationSummary, request.activeSpread,
                                     request.spreadLedger)
    /\ pc = "loop"
    /\ toolIterations = 0
    /\ toolCalls = <<>>
    /\ toolIdx = 1
    /\ hasCalledInterpretation = FALSE
    /\ currentActiveSpread = request.activeSpread
    /\ currentLedger = request.spreadLedger
    /\ openaiMessages = InitialMessages(request.messages)
    /\ totalToolCalls = 0
    /\ thinkingCalls = 0
    /\ handoffs = 0
    /\ interpretation = <<>>
    /\ context = NoContext
    /\ modelCalls = 0
    /\ nextReadingId = 2
    /\ laid = <<>>
    /\ drawRequests = 0
    /\ faults = 0
    /\ events = <<>>
    /\ closed = FALSE

\* mutant of LoopCondition: the cap test is off by one
LoopConditionOffByOne == toolIterations <= maxToolIterations

\* while (toolIterations < maxToolIterations)
LoopCondition == toolIterations < maxToolIterations

\* mutant of CurrentToolCall: the batch is walked from its end
CurrentToolCallFromEnd == toolCalls[Len(toolCalls) + 1 - toolIdx]

\* the element the for..of over toolCalls is at
CurrentToolCall == toolCalls[toolIdx]

\* text deltas of the conversation model are forwarded as they arrive
WithMiniText(evs, text) == IF text THEN Append(evs, TextEvent("mini")) ELSE evs

\* mutant of CatchEvents: the catch block swallows the error
CatchEventsSilent(evs) == evs

\* catch (error) { send({type: 'error'}) }
CatchEvents(evs) == Append(evs, ErrorEvent)

\* mutant of DoneEvents: the Turn ends without its done event
DoneEventsMissing(evs) == evs

\* send({ type: 'done' }) after the loop
DoneEvents(evs) == Append(evs, DoneEvent)

\* send({ type: 'tool_call', ... }) before the tool runs
ToolCallEvents(evs, tc) == Append(evs, ToolCallEvent(tc))

\* mutant of ToolResultEvents: the default branch sends no tool_result event
ToolResultEventsSkipUnknown(evs, tc, res) ==
    IF res = UnknownTool THEN evs ELSE Append(evs, ToolResultEvent(tc, res))

\* send({ type: 'tool_result', ... }) after the tool ran
ToolResultEvents(evs, tc, res) == Append(evs, ToolResultEvent(tc, res))

\* mutant of RecordResult: a sentinel result is not fed back to the model
RecordResultSkipSentinel(msgs, tc, res) ==
    IF res \in {NoSpreadLaid, UnknownTool} THEN msgs ELSE Append(msgs, ToolMessage(tc, res))

\* openaiMessages.push({ role: 'tool', ... })
RecordResult(msgs, tc, res) == Append(msgs, ToolMessage(tc, res))

\* chunks yielded by requestThinkingInterpretation: the provider's chunks,
\* and after a provider failure the fallback text built from the spread
ThinkingChunks(outcome) ==
    CASE outcome = "ok"          -> <<"think1", "think2">>
      [] outcome = "throwBefore" -> <<"fallback">>
      [] outcome = "throwMid"    -> <<"think1", "fallback">>

\* mutant of ForwardChunks: only the last chunk is sent, once the stream ended
ForwardChunksAtEnd(evs, chunks) ==
    IF chunks = <<>> THEN evs ELSE Append(evs, TextEvent(chunks[Len(chunks)]))

RECURSIVE ForwardChunks(_, _)
ForwardChunks(evs, chunks) ==
    IF chunks = <<>> THEN evs
    ELSE ForwardChunks(Append(evs, TextEvent(Head(chunks))), Tail(chunks))

\* mutant of Close: processChat ends without close()
CloseMissing ==
    /\ closed' = closed
    /\ pc' = "closed"

\* finally { close() }
Close ==
    /\ closed' = TRUE
    /\ pc' = "closed"

TurnFrame == UNCHANGED <<chatVars, drawVars, thinkVars, clientVars, assemblyVars, summarizeVars>>

\* mutant of ModelCallFails: the error is reported and the loop tries again
ModelCallFailsRetries ==
    /\ pc = "loop"
    /\ LoopCondition
    /\ \E text \in BOOLEAN :
          events' = CatchEvents(WithMiniText(events, text))
    /\ toolIterations' = toolIterations + 1
    /\ modelCalls' = modelCalls + 1
    /\ toolCalls' = <<>>
    /\ toolIdx' = 1
    /\ UNCHANGED <<pc, closed, hasCalledInterpretation, currentActiveSpread,
                   currentLedger, openaiMessages, totalToolCalls, thinkingCalls,
                   handoffs, interpretation, context, nextReadingId, laid, drawRequests, faults>>
    /\ TurnFrame

\* the provider call of an iteration throws, before or while streaming
ModelCallFails ==
    /\ pc = "loop"
    /\ LoopCondition
    /\ \E text \in BOOLEAN :
          events' = CatchEvents(WithMiniText(events, text))
    /\ toolIterations' = toolIterations + 1
    /\ modelCalls' = modelCalls + 1
    /\ toolCalls' = <<>>
    /\ toolIdx' = 1
    /\ Close
    /\ UNCHANGED <<hasCalledInterpretation, currentActiveSpread,
                   currentLedger, openaiMessages, totalToolCalls, thinkingCalls,
                   handoffs, interpretation, context, nextReadingId, laid, drawRequests, faults>>
    /\ TurnFrame

\* the response carries no tool call: break, send done
ModelRespondsDirectly ==
    /\ pc = "loop"
    /\ LoopCondition
    /\ \E text \in BOOLEAN :
          events' = DoneEvents(WithMiniText(events, text))
    /\ toolIterations' = toolIterations + 1
    /\ modelCalls' = modelCalls + 1
    /\ toolCalls' = <<>>
    /\ toolIdx' = 1
    /\ Close
    /\ UNCHANGED <<hasCalledInterpretation, currentActiveSpread,
                   currentLedger, openaiMessages, totalToolCalls, thinkingCalls,
                   handoffs, interpretation, context, nextReadingId, laid, drawRequests, faults>>
    /\ TurnFrame

\* the response carries tool calls (and no text: content is null): record the
\* assistant message, start the for loop
ModelRequestsTools ==
    /\ pc = "loop"
    /\ LoopCondition
    /\ \E batch \in SeqsUpTo(ToolInputs, MaxBatch) \ {<<>>} :
          /\ totalToolCalls + Len(batch) <= MaxToolCalls
          /\ faults + FaultsIn(batch) <= MaxFaults
          /\ faults' = faults + FaultsIn(batch)
          /\ toolCalls' = [i \in 1..Len(batch) |->
                             [id |-> 10 * (toolIterations + 1) + i,
                              name |-> batch[i].name,
                              args |-> batch[i].args]]
          /\ totalToolCalls' = totalToolCalls + Len(batch)
    /\ toolIterations' = toolIterations + 1
    /\ modelCalls' = modelCalls + 1
    /\ openaiMessages' = Append(openaiMessages,
            [role |-> "assistant", id |-> toolIterations + 1, content |-> "tool_calls"])
    /\ hasCalledInterpretation' = FALSE
    /\ toolIdx' = 1
    /\ pc' = "tools"
    /\ UNCHANGED <<currentActiveSpread, currentLedger, thinkingCalls, handoffs, interpretation, context,
                   nextReadingId, laid, drawRequests, events, closed>>
    /\ TurnFrame

\* the while condition fails: send done
IterationCapReached ==
    /\ pc = "loop"
    /\ ~LoopCondition
    /\ events' = DoneEvents(events)
    /\ Close
    /\ UNCHANGED <<toolIterations, toolCalls, toolIdx, hasCalledInterpretation,
                   currentActiveSpread, currentLedger, openaiMessages, totalToolCalls,
                   thinkingCalls, handoffs, interpretation, context, modelCalls, nextReadingId, laid, drawRequests, faults>>
    /\ TurnFrame

\* JSON.parse(toolCall.arguments) throws: it is outside the per-tool try
ParseArgsFails ==
    /\ pc = "tools"
    /\ CurrentToolCall.args = "malformed"
    /\ events' = CatchEvents(events)
    /\ Close
    /\ UNCHANGED <<toolIterations, toolCalls, toolIdx, hasCalledInterpretation,
                   currentActiveSpread, currentLedger, openaiMessages, totalToolCalls,
                   thinkingCalls, handoffs, interpretation, context, modelCalls, nextReadingId, laid, drawRequests, faults>>
    /\ TurnFrame

\* arguments parsed: send tool_call, enter the switch
BeginToolCall ==
    /\ pc = "tools"
    /\ CurrentToolCall.args # "malformed"
    /\ events' = ToolCallEvents(events, CurrentToolCall)
    /\ pc' = "exec"
    /\ UNCHANGED <<toolIterations, toolCalls, toolIdx, hasCalledInterpretation,
                   currentActiveSpread, currentLedger, openaiMessages, totalToolCalls,
                   thinkingCalls, handoffs, interpretation, context, modelCalls, nextReadingId, laid, drawRequests, faults, closed>>
    /\ TurnFrame

\* end of one pass of the for..of body: tool_result event, tool message, next call
FinishToolCall(evs, res) ==
    /\ events' = ToolResultEvents(evs, CurrentToolCall, res)
    /\ openaiMessages' = RecordResult(openaiMessages, CurrentToolCall, res)
    /\ toolIdx' = toolIdx + 1
    /\ pc' = IF toolIdx + 1 > Len(toolCalls) THEN "loop" ELSE "tools"
    /\ UNCHANGED <<toolIterations, toolCalls, totalToolCalls, modelCalls, closed>>
    /\ TurnFrame

ExecListSpreads ==
    /\ pc = "exec"
    /\ CurrentToolCall.name = "list_spreads"
    /\ FinishToolCall(events, "spreads_json")
    /\ UNCHANGED <<hasCalledInterpretation, currentActiveSpread, currentLedger,
                   thinkingCalls, handoffs, interpretation, context, nextReadingId, laid, drawRequests, faults>>

\* what the arguments of a draw_cards call name: a spread_slug that resolves,
\* one that does not, a non-empty custom_positions list, or neither
DrawArguments == {"slug", "unknown slug", "custom positions", "nothing"}

\* if (spread_slug) { getSpreadBySlug ... } else if (custom_positions && ...)
NamesSpread(arguments) == arguments \in {"slug", "custom positions"}

\* const nCards = positions.length (the spreads of the model have MaxCards positions)
NCards(arguments) == MaxCards

\* draws.map((draw, index) => ({ position_index: index, ... })): the spread
\* has its positions, one card for each draw the Draw Engine returned, and the
\* question of the arguments (question: whether they hold one)
LaidSpread(reading, positions, k, question) ==
    [reading |-> reading, positions |-> positions, cards |-> [i \in 1..k |-> i - 1],
     question |-> question]

\* the errors of executeDrawCards: the slug does not resolve, neither a slug
\* nor custom positions are given, the request to /api/rng/draw fails
UnknownSpread == "Unknown spread"
NoSpreadGiven == "Must provide either spread_slug or custom_positions"
DrawFailed    == "draw_error"

\* mutant of DrawCardsFails: the Draw Engine is asked before the arguments
\* are looked at
DrawCardsFailsAfterRequest(fetches, error) ==
    /\ faults < MaxFaults
    /\ faults' = faults + 1
    /\ drawRequests' = drawRequests + 1
    /\ FinishToolCall(events, error)
    /\ UNCHANGED <<currentActiveSpread, nextReadingId, laid>>

\* return { success: false, error }: after so many requests to /api/rng/draw
DrawCardsFails(fetches, error) ==
    /\ faults < MaxFaults
    /\ faults' = faults + 1
    /\ drawRequests' = drawRequests + fetches
    /\ FinishToolCall(events, error)
    /\ UNCHANGED <<currentActiveSpread, nextReadingId, laid>>

\* what is wrong with a draw: too few draws, arguments without a question
DrawFaults(positions, k, question) ==
    (IF k < positions THEN 1 ELSE 0) + (IF question THEN 0 ELSE 1)

\* mutant of DrawCardsLays: the reading record is fed back to the model
DrawCardsLaysFeedsReading(positions, k, question, spreadAfter) ==
    /\ faults + DrawFaults(positions, k, question) <= MaxFaults
    /\ faults' = faults + DrawFaults(positions, k, question)
    /\ drawRequests' = drawRequests + 1
    /\ laid' = Append(laid, LaidSpread(nextReadingId, positions, k, question))
    /\ currentActiveSpread' = spreadAfter
    /\ nextReadingId' = nextReadingId + 1
    /\ FinishToolCall(Append(events, SpreadLaidEvent(nextReadingId)), "reading_json")

\* the Draw Engine answers 200 with k draws (fewer than asked for when all
\* its tiers ran out): return { success: true, reading, spreadWithCards }
DrawCardsLays(positions, k, question, spreadAfter) ==
    /\ faults + DrawFaults(positions, k, question) <= MaxFaults
    /\ faults' = faults + DrawFaults(positions, k, question)
    /\ drawRequests' = drawRequests + 1
    /\ laid' = Append(laid, LaidSpread(nextReadingId, positions, k, question))
    /\ currentActiveSpread' = spreadAfter
    /\ nextReadingId' = nextReadingId + 1
    /\ FinishToolCall(Append(events, SpreadLaidEvent(nextReadingId)), "spread_text")

\* mutant of ExecDrawCards: the drawn spread is announced but the Turn keeps
\* the spread it had
ExecDrawCardsKeepsSpread ==
    /\ pc = "exec"
    /\ CurrentToolCall.name = "draw_cards"
    /\ \E arguments \in DrawArguments :
          IF ~NamesSpread(arguments)
          THEN DrawCardsFails(0, IF arguments = "unknown slug" THEN UnknownSpread
                                 ELSE NoSpreadGiven)
          ELSE \/ DrawCardsFails(1, DrawFailed)
               \/ \E k \in 0..NCards(arguments), question \in BOOLEAN :
                     DrawCardsLays(NCards(arguments), k, question, currentActiveSpread)
    /\ UNCHANGED <<hasCalledInterpretation, currentLedger, thinkingCalls, handoffs, interpretation, context>>

\* case 'draw_cards': executeDrawCards(args), then the success test
ExecDrawCards ==
    /\ pc = "exec"
    /\ CurrentToolCall.name = "draw_cards"
    /\ \E arguments \in DrawArguments :
          IF ~NamesSpread(arguments)
          THEN DrawCardsFails(0, IF arguments = "unknown slug" THEN UnknownSpread
                                 ELSE NoSpreadGiven)
          ELSE \/ DrawCardsFails(1, DrawFailed)
               \/ \E k \in 0..NCards(arguments), question \in BOOLEAN :
                     DrawCardsLays(NCards(arguments), k, question, nextReadingId)
    /\ UNCHANGED <<hasCalledInterpretation, currentLedger, thinkingCalls, handoffs, interpretation, context>>

\* if (hasCalledInterpretation) { ... break; }
ExecInterpretationDuplicate ==
    /\ pc = "exec"
    /\ CurrentToolCall.name = "request_interpretation"
    /\ hasCalledInterpretation
    /\ FinishToolCall(events, AlreadyProvided)
    /\ UNCHANGED <<hasCalledInterpretation, currentActiveSpread, currentLedger,
                   thinkingCalls, handoffs, interpretation, context, nextReadingId, laid, drawRequests, faults>>

\* if (!currentActiveSpread)
ExecInterpretationNoSpread ==
    /\ pc = "exec"
    /\ CurrentToolCall.name = "request_interpretation"
    /\ ~hasCalledInterpretation
    /\ currentActiveSpread = NoSpread
    /\ hasCalledInterpretation' = TRUE
    /\ FinishToolCall(events, NoSpreadLaid)
    /\ UNCHANGED <<currentActiveSpread, currentLedger, thinkingCalls, handoffs, interpretation, context,
                   nextReadingId, laid, drawRequests, faults>>

\* const { activeSpread, conversationContext, spreadLedger, focusArea } = context:
\* a field the object does not have is undefined ("null")
conversationContext(ctx) ==
    IF "conversationContext" \in DOMAIN ctx THEN ctx.conversationContext ELSE "null"

\* buildInterpretationPrompt(context): the user message given to the
\* interpretation model (the tool calls of the model carry no focus_area)
buildInterpretationPrompt(ctx) ==
    << Piece("question", "", ctx.activeSpread, <<>>, <<>>) >>
      \o (IF Truthy(conversationContext(ctx))
          THEN << Piece("recent conversation", conversationContext(ctx), NoSpread, <<>>, <<>>) >>
          ELSE <<>>)
      \o << Piece("spread purpose", "", ctx.activeSpread, <<>>, <<>>),
            Piece("cards drawn", "", ctx.activeSpread, <<>>, <<>>) >>
      \o (IF ctx.spreadLedger # <<>> THEN << formatLedgerForAI(ctx.spreadLedger) >> ELSE <<>>)

\* currentActiveSpread.question is a string (the spread of the request has a
\* question; a spread laid in this Turn has the one of the arguments)
HasQuestion(spread) ==
    \A i \in 1..Len(laid) : laid[i].reading = spread => laid[i].question

\* catch (error) { toolResult = `Tool error: ...` }
ToolError == "Tool error"

\* the Interpretation Handoff of a spread without a question: the chunks are
\* streamed, then createLedgerEntry throws on reading.question.length and the
\* catch of the tool call takes over
ExecInterpretationLedgerFails ==
    /\ pc = "exec"
    /\ CurrentToolCall.name = "request_interpretation"
    /\ ~hasCalledInterpretation
    /\ currentActiveSpread # NoSpread
    /\ ~HasQuestion(currentActiveSpread)
    /\ hasCalledInterpretation' = TRUE
    /\ thinkingCalls' = thinkingCalls + 1
    /\ handoffs' = handoffs + 1
    /\ context' = [activeSpread |-> currentActiveSpread,
                   messages |-> LastK(request.messages, 20),
                   spreadLedger |-> currentLedger,
                   conversationSummary |-> request.conversationSummary]
    /\ \E outcome \in {"ok", "throwBefore", "throwMid"} :
          /\ outcome # "ok" => faults < MaxFaults
          /\ faults' = IF outcome = "ok" THEN faults ELSE faults + 1
          /\ interpretation' = ThinkingChunks(outcome)
          /\ FinishToolCall(
                ForwardChunks(Append(events, TextEvent("sep")), ThinkingChunks(outcome)),
                ToolError)
    /\ UNCHANGED <<currentActiveSpread, currentLedger, nextReadingId, laid, drawRequests>>

\* the Interpretation Handoff: stream the chunks, append the ledger entry
ExecInterpretationHandoff ==
    /\ pc = "exec"
    /\ CurrentToolCall.name = "request_interpretation"
    /\ ~hasCalledInterpretation
    /\ currentActiveSpread # NoSpread
    /\ HasQuestion(currentActiveSpread)
    /\ hasCalledInterpretation' = TRUE
    /\ thinkingCalls' = thinkingCalls + 1
    /\ handoffs' = handoffs + 1
    /\ context' = [activeSpread |-> currentActiveSpread,
                   messages |-> LastK(request.messages, 20),
                   spreadLedger |-> currentLedger,
                   conversationSummary |-> request.conversationSummary]
    /\ currentLedger' = Append(currentLedger, currentActiveSpread)
    /\ \E outcome \in {"ok", "throwBefore", "throwMid"} :
          /\ outcome # "ok" => faults < MaxFaults
          /\ faults' = IF outcome = "ok" THEN faults ELSE faults + 1
          /\ interpretation' = ThinkingChunks(outcome)
          /\ FinishToolCall(
                Append(ForwardChunks(Append(events, TextEvent("sep")),
                                     ThinkingChunks(outcome)),
                       TextEvent("sep")),
                HandoffResult)
    /\ UNCHANGED <<currentActiveSpread, nextReadingId, laid, drawRequests>>

\* default:
ExecUnknownTool ==
    /\ pc = "exec"
    /\ CurrentToolCall.name \notin {"list_spreads", "draw_cards", "request_interpretation"}
    /\ FinishToolCall(events, UnknownTool)
    /\ UNCHANGED <<hasCalledInterpretation, currentActiveSpread, currentLedger,
                   thinkingCalls, handoffs, interpretation, context, nextReadingId, laid, drawRequests, faults>>

TurnNext ==
    \/ ModelCallFails
    \/ ModelRespondsDirectly
    \/ ModelRequestsTools
    \/ IterationCapReached
    \/ ParseArgsFails
    \/ BeginToolCall
    \/ ExecListSpreads
    \/ ExecDrawCards
    \/ ExecInterpretationDuplicate
    \/ ExecInterpretationNoSpread
    \/ ExecInterpretationHandoff
    \/ ExecInterpretationLedgerFails
    \/ ExecUnknownTool

\* processChat was not called
NotStarted ==
    /\ pc = "idle"
    /\ toolIterations = 0
    /\ toolCalls = <<>>
    /\ toolIdx = 1
    /\ hasCalledInterpretation = FALSE
    /\ currentActiveSpread = NoSpread
    /\ currentLedger = <<>>
    /\ openaiMessages = <<>>
    /\ totalToolCalls = 0
    /\ thinkingCalls = 0
    /\ handoffs = 0
    /\ interpretation = <<>>
    /\ context = NoContext
    /\ modelCalls = 0
    /\ nextReadingId = 2
    /\ laid = <<>>
    /\ drawRequests = 0
    /\ faults = 0
    /\ events = <<>>
    /\ closed = FALSE

\* no request to the chat endpoint (another component runs alone)
TurnIdle ==
    /\ ppc = "idle"
    /\ request = NoRequest
    /\ chatStatus = 0
    /\ systemContent = <<>>
    /\ NotStarted

\* a request has reached POST
PostInit ==
    /\ ppc = "post"
    /\ request \in ChatRequests
    /\ chatStatus = 0
    /\ systemContent = <<>>
    /\ NotStarted

PostFrame == UNCHANGED <<request, systemContent, turnVars, drawVars, thinkVars, clientVars,
                         assemblyVars, summarizeVars>>

\* if (!process.env.OPENAI_API_KEY) return new Response(..., { status: 500 })
PostNoApiKey ==
    /\ ppc = "post"
    /\ ~request.apiKey
    /\ chatStatus' = 500
    /\ ppc' = "returned"
    /\ PostFrame

\* await request.json() throws: status 400
PostInvalidJson ==
    /\ ppc = "post"
    /\ request.apiKey
    /\ ~request.json
    /\ chatStatus' = 400
    /\ ppc' = "returned"
    /\ PostFrame

\* mutant of NoMessages: an empty messages array is let through
NoMessagesField(req) == ~req.hasMessages

\* if (!messages || messages.length === 0)
NoMessages(req) == ~req.hasMessages \/ req.messages = <<>>

\* return new Response(..., { status: 400 })
PostNoMessages ==
    /\ ppc = "post"
    /\ request.apiKey
    /\ request.json
    /\ NoMessages(request)
    /\ chatStatus' = 400
    /\ ppc' = "returned"
    /\ PostFrame

\* createSSEStream(); processChat(...) runs up to its first await;
\* return new Response(stream)
PostStartsTurn ==
    /\ ppc = "post"
    /\ request.apiKey
    /\ request.json
    /\ ~NoMessages(request)
    /\ chatStatus' = 200
    /\ ppc' = "returned"
    /\ systemContent' = SystemContent(request.conversationSummary, request.activeSpread,
                                      request.spreadLedger)
    /\ pc' = "loop"
    /\ currentActiveSpread' = request.activeSpread
    /\ currentLedger' = request.spreadLedger
    /\ openaiMessages' = InitialMessages(request.messages)
    /\ UNCHANGED <<request, toolIterations, toolCalls, toolIdx, hasCalledInterpretation,
                   totalToolCalls, thinkingCalls, handoffs, interpretation, context,
                   modelCalls, nextReadingId, laid, drawRequests, faults, events, closed>>
    /\ UNCHANGED <<drawVars, thinkVars, clientVars, assemblyVars, summarizeVars>>

ChatNext ==
    \/ PostNoApiKey
    \/ PostInvalidJson
    \/ PostNoMessages
    \/ PostStartsTurn
    \/ TurnNext

(***************************************************************************)
(* Draw Engine                                                             *)
(***************************************************************************)
\* const methods = [qrng, random_org, fallback]
Methods == <<"qrng", "random_org", "fallback">>

\* raw values an entropy tier can deliver: small ones (10 and 88 are the same
\* base card in both orientations), a large accepted one, the largest accepted
\* value and the smallest rejected one
RawValues == {10, 88, 100, 65440, 65519, 65520}

Min(a, b) == IF a < b THEN a ELSE b

\* const requestSize = Math.min(needed * 3, 1024)
RequestSize(needed) == Min(needed * 3, 1024)

\* mutant of Rejected: no value is discarded
RejectedNever(num) == FALSE

\* if (num >= REJECTION_LIMIT) continue
Rejected(num) == num >= REJECTION_LIMIT

orientedCard(num) == num % TOTAL_ORIENTED_STATES
baseCardId(num)   == orientedCard(num) % TOTAL_CARDS
isReversed(num)   == orientedCard(num) >= TOTAL_CARDS

\* mutant of IsDuplicate: the used-set is never consulted
IsDuplicateIgnored(num, used, dup) == FALSE

\* if (!allowDuplicates && usedBaseCards.has(baseCardId)) continue
IsDuplicate(num, used, dup) == ~dup /\ baseCardId(num) \in used

\* mutant of MakeDraw: without reversals the oriented state is taken as the card
MakeDrawOriented(num, rev) ==
    [cardId |-> IF rev THEN baseCardId(num) ELSE orientedCard(num),
     reversed |-> IF rev THEN isReversed(num) ELSE FALSE]

\* draws.push({ cardId, reversed: allowReversals ? isReversed : false })
MakeDraw(num, rev) ==
    [cardId |-> baseCardId(num), reversed |-> IF rev THEN isReversed(num) ELSE FALSE]

\* attempts.push(attempt)
Attempt(method, ok) == [method |-> method, success |-> ok]

\* const methodUsed = attempts.find(a => a.success)?.method || 'fallback'
MethodUsed(atts) ==
    IF \E i \in 1..Len(atts) : atts[i].success
    THEN atts[CHOOSE i \in 1..Len(atts) :
                 /\ atts[i].success
                 /\ \A j \in 1..(i - 1) : ~atts[j].success].method
    ELSE "fallback"

\* the requests POST /api/rng/draw is given
Requests ==
    { [n |-> k, allowDuplicates |-> d, allowReversals |-> r] :
          k \in 0..MaxN, d \in BOOLEAN, r \in BOOLEAN }
      \cup { [n |-> TOTAL_CARDS + 1, allowDuplicates |-> FALSE, allowReversals |-> r] :
                r \in BOOLEAN }

DrawIdle ==
    /\ dpc = "idle"
    /\ n = 0
    /\ allowDuplicates = FALSE
    /\ allowReversals = TRUE
    /\ tier = 1
    /\ pending = 0
    /\ draws = <<>>
    /\ usedBaseCards = {}
    /\ attempts = <<>>
    /\ drawnBy = <<>>
    /\ drawnFrom = <<>>
    /\ twin = [draws |-> <<>>, used |-> {}]
    /\ status = 0

DrawInit ==
    /\ dpc = "post"
    /\ \E req \in Requests :
          /\ n = req.n
          /\ allowDuplicates = req.allowDuplicates
          /\ allowReversals = req.allowReversals
    /\ tier = 1
    /\ pending = 0
    /\ draws = <<>>
    /\ usedBaseCards = {}
    /\ attempts = <<>>
    /\ drawnBy = <<>>
    /\ drawnFrom = <<>>
    /\ twin = [draws |-> <<>>, used |-> {}]
    /\ status = 0

DrawFrame == UNCHANGED <<chatVars, turnVars, thinkVars, clientVars, assemblyVars, summarizeVars>>

\* mutant of ValidRequest: the deck-size test is missing
ValidRequestNoDeckCheck == n >= 1

\* POST: validation
ValidRequest == n >= 1 /\ (allowDuplicates \/ n <= TOTAL_CARDS)

RejectRequest ==
    /\ dpc = "post"
    /\ ~ValidRequest
    /\ status' = 400
    /\ dpc' = "done"
    /\ UNCHANGED <<n, allowDuplicates, allowReversals, tier, pending, draws,
                   usedBaseCards, attempts, drawnBy, drawnFrom, twin>>
    /\ DrawFrame

AcceptRequest ==
    /\ dpc = "post"
    /\ ValidRequest
    /\ dpc' = "tiers"
    /\ UNCHANGED <<n, allowDuplicates, allowReversals, tier, pending, draws,
                   usedBaseCards, attempts, drawnBy, drawnFrom, twin, status>>
    /\ DrawFrame

\* for (const { method, fn } of methods) { if (draws.length >= n) break; ...
TierLoopContinues == tier <= Len(Methods) /\ Len(draws) < n

\* mutant of TierThrows: the error of a tier ends the call with status 500
TierThrowsAborts ==
    /\ dpc = "tiers"
    /\ TierLoopContinues
    /\ tier \in {1, 2}
    /\ attempts' = Append(attempts, Attempt(Methods[tier], FALSE))
    /\ status' = 500
    /\ dpc' = "done"
    /\ UNCHANGED <<n, allowDuplicates, allowReversals, tier, pending, draws,
                   usedBaseCards, drawnBy, drawnFrom, twin>>
    /\ DrawFrame

\* await fn(requestSize) throws or times out (the remote tiers)
TierThrows ==
    /\ dpc = "tiers"
    /\ TierLoopContinues
    /\ tier \in {1, 2}
    /\ attempts' = Append(attempts, Attempt(Methods[tier], FALSE))
    /\ tier' = tier + 1
    /\ UNCHANGED <<dpc, n, allowDuplicates, allowReversals, pending, draws,
                   usedBaseCards, drawnBy, drawnFrom, twin, status>>
    /\ DrawFrame

\* await fn(requestSize) returns numbers: the local generator exactly
\* requestSize of them, a remote provider whatever its response holds
TierReturns ==
    /\ dpc = "tiers"
    /\ TierLoopContinues
    /\ \E received \in 0..RequestSize(n - Len(draws)) :
          /\ tier = 3 => received = RequestSize(n - Len(draws))
          /\ pending' = received
    /\ dpc' = "numbers"
    /\ UNCHANGED <<n, allowDuplicates, allowReversals, tier, draws,
                   usedBaseCards, attempts, drawnBy, drawnFrom, twin, status>>
    /\ DrawFrame

\* one pass of for (const num of numbers)
ProcessNumber ==
    /\ dpc = "numbers"
    /\ pending > 0
    /\ Len(draws) < n
    /\ pending' = pending - 1
    /\ \E num \in RawValues :
          /\ twin' = IF Len(twin.draws) < n
                         /\ ~(Rejected(num) \/ IsDuplicate(num, twin.used, allowDuplicates))
                      THEN [draws |-> Append(twin.draws, MakeDraw(num, TRUE)),
                            used |-> IF allowDuplicates THEN twin.used
                                     ELSE twin.used \cup {baseCardId(num)}]
                      ELSE twin
          /\ IF Rejected(num) \/ IsDuplicate(num, usedBaseCards, allowDuplicates)
             THEN UNCHANGED <<draws, usedBaseCards, drawnBy, drawnFrom>>
             ELSE /\ draws' = Append(draws, MakeDraw(num, allowReversals))
                  /\ drawnBy' = Append(drawnBy, Methods[tier])
                  /\ drawnFrom' = Append(drawnFrom, num)
                  /\ usedBaseCards' = IF allowDuplicates THEN usedBaseCards
                                      ELSE usedBaseCards \cup {baseCardId(num)}
    /\ UNCHANGED <<dpc, n, allowDuplicates, allowReversals, tier, attempts, status>>
    /\ DrawFrame

\* numbers exhausted or enough draws: attempts.push(attempt); break or next tier
TierEnds ==
    /\ dpc = "numbers"
    /\ pending = 0 \/ Len(draws) >= n
    /\ attempts' = Append(attempts, Attempt(Methods[tier], TRUE))
    /\ pending' = 0
    /\ tier' = IF Len(draws) >= n THEN tier ELSE tier + 1
    /\ dpc' = "tiers"
    /\ UNCHANGED <<n, allowDuplicates, allowReversals, draws, usedBaseCards,
                   drawnBy, drawnFrom, twin, status>>
    /\ DrawFrame

\* return { draws, provenance }; NextResponse.json(result)
ReturnDraws ==
    /\ dpc = "tiers"
    /\ ~TierLoopContinues
    /\ status' = 200
    /\ dpc' = "done"
    /\ UNCHANGED <<n, allowDuplicates, allowReversals, tier, pending, draws,
                   usedBaseCards, attempts, drawnBy, drawnFrom, twin>>
    /\ DrawFrame

DrawNext ==
    \/ RejectRequest
    \/ AcceptRequest
    \/ TierThrows
    \/ TierReturns
    \/ ProcessNumber
    \/ TierEnds
    \/ ReturnDraws

(***************************************************************************)
(* Interpretation Handoff                                                  *)
(***************************************************************************)
CardNames == {"The Fool", "The Tower"}

\* spread.positions.find(p => p.index === position_index)?.meaning
PositionMeaning(position_index) == <<"position", position_index>>

\* reversed ? card.meaning_reversed : card.meaning
CardMeaning(c) == IF c.reversed THEN <<"meaning_reversed", c.card>>
                                ELSE <<"meaning", c.card>>

\* the cards of a spread built by executeDrawCards: position_index is the index
\* of the draw, counted from 0
Spreads ==
    UNION { { [i \in 1..k |-> [position_index |-> i - 1,
                               card |-> f[i].card,
                               reversed |-> f[i].reversed]] :
                f \in [1..k -> [card : CardNames, reversed : BOOLEAN]] } :
            k \in 0..MaxCards }

\* what the generator yields
Chunk(kind, name, position, orientation, meaning) ==
    [kind |-> kind, name |-> name, position |-> position,
     orientation |-> orientation, meaning |-> meaning]

\* yield content (a delta of the provider's stream)
ModelChunk(k) == Chunk("model", "", <<>>, "", <<"delta", k>>)

\* yield '*I sense some interference ...*'
FallbackIntro == Chunk("intro", "", <<>>, "", <<>>)

\* yield `**${card.name}** in the position of "${position?.meaning}" (${orientation}): ${meaning}`
FallbackEntry(c) ==
    Chunk("card", c.card, PositionMeaning(c.position_index),
          IF c.reversed THEN "reversed" ELSE "upright", CardMeaning(c))

\* yield `Let these cards guide your reflection on your question about ...`
FallbackOutro == Chunk("outro", "", <<>>, "", <<>>)

ThinkIdle ==
    /\ tpc = "idle"
    /\ spreadCards = <<>>
    /\ providerCalls = 0
    /\ yielded = <<>>
    /\ cardIdx = 1

ThinkInit ==
    /\ tpc = "start"
    /\ spreadCards \in Spreads
    /\ providerCalls = 0
    /\ yielded = <<>>
    /\ cardIdx = 1

ThinkFrame == UNCHANGED <<chatVars, turnVars, drawVars, clientVars, assemblyVars, summarizeVars>>

\* mutant of FallbackCard: the cards are walked from the last to the first
FallbackCardFromEnd == spreadCards[Len(spreadCards) + 1 - cardIdx]

\* the element the for..of over context.activeSpread.cards is at
FallbackCard == spreadCards[cardIdx]

\* await openai.chat.completions.create(...) returns the stream
ProviderCallReturns ==
    /\ tpc = "start"
    /\ providerCalls' = providerCalls + 1
    /\ tpc' = "stream"
    /\ UNCHANGED <<spreadCards, yielded, cardIdx>>
    /\ ThinkFrame

\* await openai.chat.completions.create(...) throws
ProviderCallThrows ==
    /\ tpc = "start"
    /\ providerCalls' = providerCalls + 1
    /\ tpc' = "catch"
    /\ UNCHANGED <<spreadCards, yielded, cardIdx>>
    /\ ThinkFrame

\* for await (const chunk of stream): if (content) yield content
StreamYields ==
    /\ tpc = "stream"
    /\ Len(yielded) < MaxChunks
    /\ yielded' = Append(yielded, ModelChunk(Len(yielded) + 1))
    /\ UNCHANGED <<tpc, spreadCards, providerCalls, cardIdx>>
    /\ ThinkFrame

\* the stream is exhausted: the generator returns
StreamEnds ==
    /\ tpc = "stream"
    /\ tpc' = "done"
    /\ UNCHANGED <<spreadCards, providerCalls, yielded, cardIdx>>
    /\ ThinkFrame

\* the stream throws while it is read
StreamThrows ==
    /\ tpc = "stream"
    /\ tpc' = "catch"
    /\ UNCHANGED <<spreadCards, providerCalls, yielded, cardIdx>>
    /\ ThinkFrame

\* catch (error): the first yield of the fallback
YieldFallbackIntro ==
    /\ tpc = "catch"
    /\ yielded' = Append(yielded, FallbackIntro)
    /\ cardIdx' = 1
    /\ tpc' = "cards"
    /\ UNCHANGED <<spreadCards, providerCalls>>
    /\ ThinkFrame

\* one pass of for (const {position_index, card, reversed} of context.activeSpread.cards)
YieldFallbackCard ==
    /\ tpc = "cards"
    /\ cardIdx <= Len(spreadCards)
    /\ yielded' = Append(yielded, FallbackEntry(FallbackCard))
    /\ cardIdx' = cardIdx + 1
    /\ UNCHANGED <<tpc, spreadCards, providerCalls>>
    /\ ThinkFrame

\* the last yield of the fallback; the generator returns
YieldFallbackOutro ==
    /\ tpc = "cards"
    /\ cardIdx > Len(spreadCards)
    /\ yielded' = Append(yielded, FallbackOutro)
    /\ tpc' = "done"
    /\ UNCHANGED <<spreadCards, providerCalls, cardIdx>>
    /\ ThinkFrame

ThinkNext ==
    \/ ProviderCallReturns
    \/ ProviderCallThrows
    \/ StreamYields
    \/ StreamEnds
    \/ StreamThrows
    \/ YieldFallbackIntro
    \/ YieldFallbackCard
    \/ YieldFallbackOutro

(***************************************************************************)
(* Caller: the useChat hook and ChatUIContext                              *)
(***************************************************************************)
\* a Message of the hook; content is the sequence of the text pieces appended
Message(role, content) ==
    [role |-> role, content |-> content, toolCalls |-> <<>>, toolResults |-> <<>>]

IsChatMessage(m) == m.role \in {"user", "assistant"}

\* allMessages.filter(m => m.role === 'user' || m.role === 'assistant')
ChatMessages(msgs) == SelectSeq(msgs, IsChatMessage)

\* mutant of ApiMessage: the tool results noted on a message are sent along
ApiMessageWithResults(m) ==
    [role |-> m.role,
     content |-> m.content \o [i \in 1..Len(m.toolResults) |-> m.toolResults[i].result]]

\* messagesToSend.map(m => ({ role: m.role, content: m.content }))
ApiMessage(m) == [role |-> m.role, content |-> m.content]

ApiMessages(msgs) == [i \in 1..Len(msgs) |-> ApiMessage(msgs[i])]

\* const activeSpread = currentSpreadIndex >= 0 && currentSpreadIndex < spreadHistory.length
\*     ? spreadHistory[currentSpreadIndex] : null
activeSpread ==
    IF currentSpreadIndex >= 0 /\ currentSpreadIndex < Len(spreadHistory)
    THEN spreadHistory[currentSpreadIndex + 1]
    ELSE NoSpread

\* the messages of a session after h earlier exchanges of plain text
History(h) ==
    [i \in 1..h |-> Message(IF i % 2 = 1 THEN "user" ELSE "assistant", <<ToString(i)>>)]

\* the tool calls of the streams below
StreamCall(c, k, nm) == [id |-> 10 * c + k, name |-> nm, args |-> "ok"]

\* the reading laid by the Turn of call c
ReadingOf(c) == 100 + c

\* event streams of a Turn, as the Turn Controller sends them: a direct answer,
\* a look at the catalogue followed by an answer, a draw followed by its
\* interpretation and the closing words, and a Turn that ends with an error
TurnStreams(c) ==
    { << TextEvent("mini"), DoneEvent >>,
      << ToolCallEvent(StreamCall(c, 1, "list_spreads")),
         ToolResultEvent(StreamCall(c, 1, "list_spreads"), "spreads_json"),
         TextEvent("mini"), DoneEvent >>,
      << ToolCallEvent(StreamCall(c, 1, "draw_cards")),
         SpreadLaidEvent(ReadingOf(c)),
         ToolResultEvent(StreamCall(c, 1, "draw_cards"), "spread_text"),
         ToolCallEvent(StreamCall(c, 2, "request_interpretation")),
         TextEvent("sep"), TextEvent("think1"), TextEvent("think2"), TextEvent("sep"),
         ToolResultEvent(StreamCall(c, 2, "request_interpretation"), HandoffResult),
         TextEvent("mini"), DoneEvent >>,
      << TextEvent("mini"), ErrorEvent >> }

\* readings for which the Turn that sent the stream completed an interpretation
InterpretedIn(stream) ==
    IF \E i \in 1..Len(stream) :
          stream[i].type = "tool_result" /\ stream[i].content = HandoffResult
    THEN { stream[i].reading : i \in { j \in 1..Len(stream) : stream[j].type = "spread_laid" } }
    ELSE {}

\* a sendMessage call that was not made yet
NoCall ==
    [cpc |-> "new", seen |-> [activeSpread |-> NoSpread, spreadLedger |-> <<>>,
                              conversationSummary |-> "null"],
     newMessages |-> <<>>, summarization |-> "none yet", summarized |-> <<>>,
     summary |-> "null", messagesToSend |-> <<>>, stream |-> <<>>, pos |-> 1]

ClientIdle ==
    /\ messages = <<>>
    /\ isLoading = FALSE
    /\ spreadLedger = <<>>
    /\ conversationSummary = "null"
    /\ spreadHistory = <<>>
    /\ currentSpreadIndex = -1
    /\ calls = <<>>
    /\ nextCall = 1
    /\ requests = <<>>
    /\ interpreted = {}

ClientInit ==
    /\ messages \in { History(h) : h \in 0..MaxHistory }
    /\ isLoading = FALSE
    /\ spreadLedger = <<>>
    /\ conversationSummary \in {"null", "summary0"}
    /\ spreadHistory = <<>>
    /\ currentSpreadIndex = -1
    /\ calls = [c \in 1..MaxSends |-> NoCall]
    /\ nextCall = 1
    /\ requests = <<>>
    /\ interpreted = {}

ClientFrame == UNCHANGED <<chatVars, turnVars, drawVars, thinkVars, assemblyVars, summarizeVars>>

\* updated.findLastIndex(m => m.role === 'assistant'), counted from 1; 0 = none
LastAssistant(msgs) ==
    IF \E i \in 1..Len(msgs) : msgs[i].role = "assistant"
    THEN CHOOSE i \in 1..Len(msgs) :
            /\ msgs[i].role = "assistant"
            /\ \A j \in (i + 1)..Len(msgs) : msgs[j].role # "assistant"
    ELSE 0

\* case 'text': the content is appended to the last assistant message
OnText(msgs, e) ==
    IF LastAssistant(msgs) = 0 THEN msgs
    ELSE [msgs EXCEPT ![LastAssistant(msgs)].content = Append(@, e.content)]

\* case 'tool_call': an indicator message, and the call is noted on the last
\* assistant message
OnToolCall(msgs, e) ==
    LET shown == Append(msgs, Message("system", <<"indicator", e.name>>))
    IN  IF LastAssistant(shown) = 0 THEN shown
        ELSE [shown EXCEPT ![LastAssistant(shown)].toolCalls = Append(@, e.id)]

\* case 'tool_result': the result is noted on the last assistant message
OnToolResult(msgs, e) ==
    IF LastAssistant(msgs) = 0 THEN msgs
    ELSE [msgs EXCEPT ![LastAssistant(msgs)].toolResults =
              Append(@, [name |-> e.name, result |-> e.content])]

\* case 'spread_laid': a "Spread laid" message (addSpread is part of the action)
OnSpreadLaid(msgs, e) == Append(msgs, Message("system", <<"Spread laid">>))

\* the user message of call c
UserMessage(c) == Message("user", <<ToString(1000 + c)>>)

\* the summary a successful summarization of call c returns
NewSummary(c) == ToString(2000 + c)

\* mutant of MaySend: a call is accepted while a request is in flight
MaySendWhileLoading(blank) == ~blank

\* if (!content.trim() || isLoading) return
\* (isLoading as the callback of the latest render sees it)
MaySend(blank) == ~blank /\ ~isLoading

\* sendMessage returns at once
SendMessageReturns(c) ==
    /\ c = nextCall
    /\ \E blank \in BOOLEAN :
          /\ ~MaySend(blank)
          /\ calls' = [calls EXCEPT ![c].cpc = IF blank THEN "blank" ELSE "busy"]
    /\ nextCall' = nextCall + 1
    /\ UNCHANGED <<messages, isLoading, spreadLedger, conversationSummary, spreadHistory,
                   currentSpreadIndex, requests, interpreted>>
    /\ ClientFrame

\* sendMessage up to its first await: the user message is added, isLoading set
SendMessageStarts(c) ==
    /\ c = nextCall
    /\ MaySend(FALSE)
    /\ nextCall' = nextCall + 1
    /\ messages' = Append(messages, UserMessage(c))
    /\ isLoading' = TRUE
    /\ calls' = [calls EXCEPT ![c] =
          [@ EXCEPT !.cpc = "summarizeIfNeeded",
                    !.newMessages = Append(messages, UserMessage(c)),
                    !.seen = [activeSpread |-> activeSpread,
                              spreadLedger |-> spreadLedger,
                              conversationSummary |-> conversationSummary]]]
    /\ UNCHANGED <<spreadLedger, conversationSummary, spreadHistory, currentSpreadIndex,
                   requests, interpreted>>
    /\ ClientFrame

\* summarizeIfNeeded: chatMessages.length <= SUMMARIZATION_THRESHOLD
SummarizeNotNeeded(c) ==
    /\ calls[c].cpc = "summarizeIfNeeded"
    /\ Len(ChatMessages(calls[c].newMessages)) <= SUMMARIZATION_THRESHOLD
    /\ calls' = [calls EXCEPT ![c] =
          [@ EXCEPT !.cpc = "post",
                    !.summarization = "not needed",
                    !.summary = calls[c].seen.conversationSummary,
                    !.messagesToSend = ChatMessages(calls[c].newMessages)]]
    /\ UNCHANGED <<messages, isLoading, spreadLedger, conversationSummary, spreadHistory,
                   currentSpreadIndex, nextCall, requests, interpreted>>
    /\ ClientFrame

\* Array.prototype.slice(0, end): a negative end counts from the end of the array
SliceTo(s, end) ==
    SubSeq(s, 1, IF end < 0
                 THEN (IF Len(s) + end < 0 THEN 0 ELSE Len(s) + end)
                 ELSE Min(end, Len(s)))

\* mutant of ToSummarize: every message is summarized, none is kept
ToSummarizeAll(msgs, keepRecent) == msgs

\* summarizeConversation: const toSummarize = messages.slice(0, -keepRecent)
ToSummarize(msgs, keepRecent) == SliceTo(msgs, 0 - keepRecent)

\* mutant of SummarizeSucceeds: the stored history is left as it is
SummarizeSucceedsKeepsHistory(c) ==
    /\ calls[c].cpc = "summarizeIfNeeded"
    /\ Len(ChatMessages(calls[c].newMessages)) > SUMMARIZATION_THRESHOLD
    /\ conversationSummary' = NewSummary(c)
    /\ calls' = [calls EXCEPT ![c] =
          [@ EXCEPT !.cpc = "post",
                    !.summarization = "ok",
                    !.summarized =
                        ToSummarize(ApiMessages(ChatMessages(calls[c].newMessages)),
                                    KEEP_RECENT),
                    !.summary = NewSummary(c),
                    !.messagesToSend =
                        ChatMessages(LastK(calls[c].newMessages, KEEP_RECENT))]]
    /\ UNCHANGED <<messages, isLoading, spreadLedger, spreadHistory, currentSpreadIndex,
                   nextCall, requests, interpreted>>
    /\ ClientFrame

\* summarizeIfNeeded: /api/chat/summarize answered with a summary
SummarizeSucceeds(c) ==
    /\ calls[c].cpc = "summarizeIfNeeded"
    /\ Len(ChatMessages(calls[c].newMessages)) > SUMMARIZATION_THRESHOLD
    /\ conversationSummary' = NewSummary(c)
    /\ messages' = LastK(calls[c].newMessages, KEEP_RECENT)
    /\ calls' = [calls EXCEPT ![c] =
          [@ EXCEPT !.cpc = "post",
                    !.summarization = "ok",
                    !.summarized =
                        ToSummarize(ApiMessages(ChatMessages(calls[c].newMessages)),
                                    KEEP_RECENT),
                    !.summary = NewSummary(c),
                    !.messagesToSend =
                        ChatMessages(LastK(calls[c].newMessages, KEEP_RECENT))]]
    /\ UNCHANGED <<isLoading, spreadLedger, spreadHistory, currentSpreadIndex, nextCall,
                   requests, interpreted>>
    /\ ClientFrame

\* summarizeIfNeeded: the response is not ok, the fetch throws, or the answer
\* holds no summary (needsSummarization false or an empty summary)
SummarizeFails(c) ==
    /\ calls[c].cpc = "summarizeIfNeeded"
    /\ Len(ChatMessages(calls[c].newMessages)) > SUMMARIZATION_THRESHOLD
    /\ \E outcome \in {"not ok", "throws", "no summary"} :
          calls' = [calls EXCEPT ![c] =
              [@ EXCEPT !.cpc = "post",
                        !.summarization = outcome,
                        !.summary = calls[c].seen.conversationSummary,
                        !.messagesToSend = LastK(ChatMessages(calls[c].newMessages), 20)]]
    /\ UNCHANGED <<messages, isLoading, spreadLedger, conversationSummary, spreadHistory,
                   currentSpreadIndex, nextCall, requests, interpreted>>
    /\ ClientFrame

\* body: JSON.stringify({ messages: apiMessages, activeSpread, spreadLedger,
\*                        conversationSummary: summary })
RequestBody(c) ==
    [call |-> c,
     messages |-> ApiMessages(calls[c].messagesToSend),
     activeSpread |-> calls[c].seen.activeSpread,
     spreadLedger |-> calls[c].seen.spreadLedger,
     conversationSummary |-> calls[c].summary]

\* fetch('/api/chat') is answered with a stream: the assistant placeholder is added
PostChatAnswered(c) ==
    /\ calls[c].cpc = "post"
    /\ requests' = Append(requests, RequestBody(c))
    /\ messages' = Append(messages, Message("assistant", <<>>))
    /\ \E s \in TurnStreams(c) :
          calls' = [calls EXCEPT ![c] = [@ EXCEPT !.cpc = "reading", !.stream = s, !.pos = 1]]
    /\ UNCHANGED <<isLoading, spreadLedger, conversationSummary, spreadHistory,
                   currentSpreadIndex, nextCall, interpreted>>
    /\ ClientFrame

\* fetch('/api/chat') throws or the response is not ok: catch, finally
PostChatFails(c) ==
    /\ calls[c].cpc = "post"
    /\ requests' = Append(requests, RequestBody(c))
    /\ messages' = Append(messages, Message("system", <<"Sorry">>))
    /\ isLoading' = FALSE
    /\ calls' = [calls EXCEPT ![c].cpc = "failed"]
    /\ UNCHANGED <<spreadLedger, conversationSummary, spreadHistory, currentSpreadIndex,
                   nextCall, interpreted>>
    /\ ClientFrame

\* one event of the stream goes through the switch
ReadEvent(c) ==
    /\ calls[c].cpc = "reading"
    /\ calls[c].pos <= Len(calls[c].stream)
    /\ LET e == calls[c].stream[calls[c].pos]
       IN  /\ messages' =
                 CASE e.type = "text"        -> OnText(messages, e)
                   [] e.type = "tool_call"   -> OnToolCall(messages, e)
                   [] e.type = "tool_result" -> OnToolResult(messages, e)
                   [] e.type = "spread_laid" -> OnSpreadLaid(messages, e)
                   [] OTHER                  -> messages
           /\ IF e.type = "spread_laid"
              THEN /\ spreadHistory' = Append(spreadHistory, e.reading)
                   /\ currentSpreadIndex' = currentSpreadIndex + 1
              ELSE UNCHANGED <<spreadHistory, currentSpreadIndex>>
    /\ calls' = [calls EXCEPT ![c].pos = @ + 1]
    /\ UNCHANGED <<isLoading, spreadLedger, conversationSummary, nextCall, requests,
                   interpreted>>
    /\ ClientFrame

\* reader.read() reports done: finally { setIsLoading(false) }
StreamCloses(c) ==
    /\ calls[c].cpc = "reading"
    /\ calls[c].pos > Len(calls[c].stream)
    /\ isLoading' = FALSE
    /\ interpreted' = interpreted \cup InterpretedIn(calls[c].stream)
    /\ calls' = [calls EXCEPT ![c].cpc = "finished"]
    /\ UNCHANGED <<messages, spreadLedger, conversationSummary, spreadHistory,
                   currentSpreadIndex, nextCall, requests>>
    /\ ClientFrame

ClientNext ==
    \/ \E c \in 1..MaxSends : SendMessageReturns(c)
    \/ \E c \in 1..MaxSends : SendMessageStarts(c)
    \/ \E c \in 1..MaxSends : SummarizeNotNeeded(c)
    \/ \E c \in 1..MaxSends : SummarizeSucceeds(c)
    \/ \E c \in 1..MaxSends : SummarizeFails(c)
    \/ \E c \in 1..MaxSends : PostChatAnswered(c)
    \/ \E c \in 1..MaxSends : PostChatFails(c)
    \/ \E c \in 1..MaxSends : ReadEvent(c)
    \/ \E c \in 1..MaxSends : StreamCloses(c)

\* addSpread(spread): setSpreadHistory(prev => [...prev, spread]);
\* setCurrentSpreadIndex(prev => prev + 1)
AddSpread(spread) ==
    /\ Len(spreadHistory) < MaxSpreads
    /\ spreadHistory' = Append(spreadHistory, spread)
    /\ currentSpreadIndex' = currentSpreadIndex + 1
    /\ UNCHANGED <<messages, isLoading, spreadLedger, conversationSummary, calls, nextCall,
                   requests, interpreted>>
    /\ ClientFrame

\* navigateSpread(direction)
NavigateSpread(direction) ==
    /\ currentSpreadIndex' =
          IF direction = "prev" /\ currentSpreadIndex > 0
          THEN currentSpreadIndex - 1
          ELSE IF direction = "next" /\ currentSpreadIndex < Len(spreadHistory) - 1
               THEN currentSpreadIndex + 1
               ELSE currentSpreadIndex
    /\ UNCHANGED <<messages, isLoading, spreadLedger, conversationSummary, spreadHistory,
                   calls, nextCall, requests, interpreted>>
    /\ ClientFrame

UINext ==
    \/ \E spread \in 1..MaxSpreadId : AddSpread(spread)
    \/ \E direction \in {"prev", "next"} : NavigateSpread(direction)

(***************************************************************************)
(* Tool call assembly: the for await over the chunks of one response       *)
(***************************************************************************)
\* a tool call delta: id and name are "" where the delta carries none, the
\* arguments are the fragment it carries (<<>>: none), as a sequence of tokens
Delta(index, id, name, arguments) ==
    [index |-> index, id |-> id, name |-> name, arguments |-> arguments]

IdOfIndex(i)   == IF i = 0 THEN "call_0" ELSE "call_1"
NameOfIndex(i) == IF i = 0 THEN "draw_cards" ELSE "request_interpretation"

\* the provider names a call in the first delta of its index and sends
\* argument fragments in the deltas after it
FirstDelta(i)       == Delta(i, IdOfIndex(i), NameOfIndex(i), <<>>)
FragmentDelta(i, f) == Delta(i, "", "", <<f>>)

Deltas ==
    { FirstDelta(i) : i \in 0..MaxToolIndex }
      \cup { FragmentDelta(i, f) : i \in 0..MaxToolIndex, f \in {"x", "y"} }

\* the positions of a stream that carry index i
PositionsOf(str, i) == { p \in 1..Len(str) : str[p].index = i }

\* the streams of one response: every index opens with its first delta, and
\* an index opens only after the indices below it
DeltaStreams ==
    { str \in SeqsUpTo(Deltas, MaxDeltas) :
        \A p \in 1..Len(str) :
           /\ (str[p].id # "") <=> (\A q \in 1..(p - 1) : str[q].index # str[p].index)
           /\ \A j \in 0..(str[p].index - 1) : \E q \in 1..(p - 1) : str[q].index = j }

AssemblyIdle ==
    /\ apc = "idle"
    /\ deltaStream = <<>>
    /\ deltaIdx = 0
    /\ assembled = <<>>
    /\ currentToolIndex = -1

\* let toolCalls = []; let currentToolIndex = -1
AssemblyInit ==
    /\ apc = "streaming"
    /\ deltaStream \in DeltaStreams
    /\ deltaIdx = 0
    /\ assembled = <<>>
    /\ currentToolIndex = -1

AssemblyFrame == UNCHANGED <<chatVars, turnVars, drawVars, thinkVars, clientVars, summarizeVars>>

\* toolCalls[tc.index] = value (element tc.index is element tc.index + 1 of
\* the sequence; the streams never skip an index)
PutToolCall(arr, index, value) ==
    IF index + 1 <= Len(arr)
    THEN [arr EXCEPT ![index + 1] = value]
    ELSE Append(arr, value)

\* one pass of for (const tc of delta.tool_calls)
TakeDelta ==
    /\ apc = "streaming"
    /\ deltaIdx < Len(deltaStream)
    /\ deltaIdx' = deltaIdx + 1
    /\ LET tc == deltaStream[deltaIdx + 1]
       IN  IF tc.index # currentToolIndex
           THEN /\ currentToolIndex' = tc.index
                /\ assembled' = PutToolCall(assembled, tc.index,
                                    [id |-> tc.id, name |-> tc.name,
                                     arguments |-> tc.arguments])
           ELSE /\ currentToolIndex' = currentToolIndex
                /\ assembled' =
                     [assembled EXCEPT ![tc.index + 1] =
                        [id |-> IF tc.id # "" /\ @.id = "" THEN tc.id ELSE @.id,
                         name |-> IF tc.name # "" /\ @.name = "" THEN tc.name ELSE @.name,
                         arguments |-> @.arguments \o tc.arguments]]
    /\ UNCHANGED <<apc, deltaStream>>
    /\ AssemblyFrame

\* the for await ends
ResponseEnds ==
    /\ apc = "streaming"
    /\ deltaIdx = Len(deltaStream)
    /\ apc' = "done"
    /\ UNCHANGED <<deltaStream, deltaIdx, assembled, currentToolIndex>>
    /\ AssemblyFrame

AssemblyNext ==
    \/ TakeDelta
    \/ ResponseEnds

(***************************************************************************)
(* POST /api/chat/summarize and summarizeConversation                      *)
(***************************************************************************)
\* the bodies POST is given: whether messages is an array, the messages, and
\* threshold and keepRecent (0: the field is missing or 0)
SummarizeBodies ==
    { [hasMessages |-> has, messages |-> Msgs(k), threshold |-> t, keepRecent |-> kr] :
         has \in BOOLEAN,
         k \in {0, SmallThreshold, SmallThreshold + 1, SUMMARIZATION_THRESHOLD + 1,
                SUMMARIZATION_THRESHOLD + MaxOverThreshold},
         t \in {0, SmallThreshold},
         kr \in {-1, 0, 1, KEEP_RECENT, SUMMARIZATION_THRESHOLD + MaxOverThreshold + 1} }

NoBody == [hasMessages |-> FALSE, messages |-> <<>>, threshold |-> 0, keepRecent |-> 0]

\* return null
NullResult == [returned |-> "null", summary |-> "", messagesRemoved |-> 0]

SummarizeIdle ==
    /\ upc = "idle"
    /\ sumBody = NoBody
    /\ sumResult = NullResult
    /\ sumStatus = 0

SummarizeInit ==
    /\ upc = "post"
    /\ sumBody \in SummarizeBodies
    /\ sumResult = NullResult
    /\ sumStatus = 0

SummarizeFrame == UNCHANGED <<chatVars, turnVars, drawVars, thinkVars, clientVars, assemblyVars>>

\* threshold || 20, keepRecent || 3
OrDefault(value, default) == IF value = 0 THEN default ELSE value

Threshold(body)  == OrDefault(body.threshold, SUMMARIZATION_THRESHOLD)
KeepRecent(body) == OrDefault(body.keepRecent, KEEP_RECENT)

\* if (!messages || !Array.isArray(messages)): 400
SummarizeRejected ==
    /\ upc = "post"
    /\ ~sumBody.hasMessages
    /\ sumStatus' = 400
    /\ upc' = "done"
    /\ UNCHANGED <<sumBody, sumResult>>
    /\ SummarizeFrame

\* if (messages.length <= threshold) return null
WithinThreshold ==
    /\ upc = "post"
    /\ sumBody.hasMessages
    /\ Len(sumBody.messages) <= Threshold(sumBody)
    /\ sumResult' = NullResult
    /\ sumStatus' = 200
    /\ upc' = "done"
    /\ UNCHANGED sumBody
    /\ SummarizeFrame

\* the provider answers: return { summary, messagesRemoved: toSummarize.length }
SummaryReturned ==
    /\ upc = "post"
    /\ sumBody.hasMessages
    /\ Len(sumBody.messages) > Threshold(sumBody)
    /\ sumResult' = [returned |-> "result", summary |-> "summary1",
                     messagesRemoved |->
                        Len(ToSummarize(sumBody.messages, KeepRecent(sumBody)))]
    /\ sumStatus' = 200
    /\ upc' = "done"
    /\ UNCHANGED sumBody
    /\ SummarizeFrame

\* the provider call throws: catch { return null }
SummaryProviderThrows ==
    /\ upc = "post"
    /\ sumBody.hasMessages
    /\ Len(sumBody.messages) > Threshold(sumBody)
    /\ sumResult' = NullResult
    /\ sumStatus' = 200
    /\ upc' = "done"
    /\ UNCHANGED sumBody
    /\ SummarizeFrame

SummarizeNext ==
    \/ SummarizeRejected
    \/ WithinThreshold
    \/ SummaryReturned
    \/ SummaryProviderThrows

(***************************************************************************)
(* Specifications                                                          *)
(***************************************************************************)
Init == TurnInit /\ DrawIdle /\ ThinkIdle /\ ClientIdle /\ AssemblyIdle /\ SummarizeIdle

Next == TurnNext

\* one Turn of processChat
Spec == Init /\ [][Next]_vars

\* one Turn in which every awaited call eventually returns or throws
FairSpec == Init /\ [][Next]_vars /\ WF_vars(Next)

DrawSpecInit == TurnIdle /\ DrawInit /\ ThinkIdle /\ ClientIdle /\ AssemblyIdle /\ SummarizeIdle

\* one request to the Draw Engine
DrawSpec == DrawSpecInit /\ [][DrawNext]_vars

ThinkSpecInit == TurnIdle /\ DrawIdle /\ ThinkInit /\ ClientIdle /\ AssemblyIdle /\ SummarizeIdle

\* one call of requestThinkingInterpretation, consumed to its end
ThinkSpec == ThinkSpecInit /\ [][ThinkNext]_vars

ClientSpecInit == TurnIdle /\ DrawIdle /\ ThinkIdle /\ ClientInit /\ AssemblyIdle /\ SummarizeIdle

\* a session of the caller: sendMessage calls on the useChat hook
ClientSpec == ClientSpecInit /\ [][ClientNext]_vars

UISpecInit == TurnIdle /\ DrawIdle /\ ThinkIdle /\ ClientIdle /\ AssemblyIdle /\ SummarizeIdle

\* the spread history of the interface: spreads are added and paged through
UISpec == UISpecInit /\ [][UINext]_vars

ChatSpecInit == PostInit /\ DrawIdle /\ ThinkIdle /\ ClientIdle /\ AssemblyIdle /\ SummarizeIdle

\* one request to the chat endpoint, and the Turn it starts
ChatSpec == ChatSpecInit /\ [][ChatNext]_vars

AssemblySpecInit ==
    TurnIdle /\ DrawIdle /\ ThinkIdle /\ ClientIdle /\ AssemblyInit /\ SummarizeIdle

\* the tool calls of one response of the conversation model are assembled
AssemblySpec == AssemblySpecInit /\ [][AssemblyNext]_vars

SummarizeSpecInit ==
    TurnIdle /\ DrawIdle /\ ThinkIdle /\ ClientIdle /\ AssemblyIdle /\ SummarizeInit

\* one request to the summarize endpoint
SummarizeSpec == SummarizeSpecInit /\ [][SummarizeNext]_vars

(***************************************************************************)
(* Observations on the event stream and the model-facing history           *)
(***************************************************************************)
CountType(evs, t) == Cardinality({ i \in 1..Len(evs) : evs[i].type = t })

MiniTexts(evs) == Cardinality({ i \in 1..Len(evs) : evs[i] = TextEvent("mini") })

IsToolEvent(e) == e.type \in {"tool_call", "tool_result", "spread_laid"}
IsToolCall(e) == e.type = "tool_call"
IsToolMessage(m) == m.role = "tool"

IdsOf(s) == [i \in 1..Len(s) |-> s[i].id]

\* ids of the tool calls whose execution has started, in the order they started
StartedIds == IdsOf(SelectSeq(events, IsToolCall))

\* ids of the tool calls whose result is recorded, in the order of recording
RecordedIds == IdsOf(SelectSeq(openaiMessages, IsToolMessage))

IsPrefix(s, t) == Len(s) <= Len(t) /\ \A i \in 1..Len(s) : s[i] = t[i]

\* the Turn ended because the last allowed iteration ran and executed its tool calls
CapReached ==
    /\ toolIterations = maxToolIterations
    /\ toolCalls # <<>>
    /\ toolIdx > Len(toolCalls)

(***************************************************************************)
(* Claims                                                                  *)
(***************************************************************************)

\* C1: once a request_interpretation call has run the Interpretation Handoff,
\* the conversation model is not called again and no text of the conversation
\* model is emitted for the rest of the Turn.
C1_HandoffEndsConversationModel ==
    [][handoffs > 0 =>
          /\ modelCalls' = modelCalls
          /\ MiniTexts(events') = MiniTexts(events)]_vars

\* C2: over all iterations of a Turn the Interpretation Handoff is invoked at
\* most once; every request_interpretation after the one that ran the handoff
\* gets the static "already provided" result.
C2_AtMostOneHandoffPerTurn ==
    /\ handoffs <= 1
    /\ \A i, j \in 1..Len(events) :
          ( /\ i < j
            /\ events[i].type = "tool_result"
            /\ events[i].name = "request_interpretation"
            /\ events[i].content = HandoffResult
            /\ events[j].type = "tool_result"
            /\ events[j].name = "request_interpretation" )
          => events[j].content = AlreadyProvided

C5_IterationCapIsNormalEnd ==
    /\ modelCalls <= 5
    /\ toolIterations <= 5
    /\ (closed /\ CapReached) =>
          /\ Last(events).type = "done"
          /\ CountType(events, "error") = 0

\* witness of C5: the fifth model call answered with tool calls and the Turn is over
C5_Witness_CapReached ==
    /\ closed
    /\ CapReached
    /\ modelCalls = 5

\* C6: the tool calls of an iteration are executed one at a time in the order
\* the model emitted them; a call starts only when the result of the previous
\* one is recorded.
C6_SequentialInEmissionOrder ==
    /\ IsPrefix(RecordedIds, StartedIds)
    /\ Len(StartedIds) - Len(RecordedIds) <= 1
    /\ Len(StartedIds) > Len(RecordedIds) <=> pc = "exec"
    /\ pc \in {"tools", "exec"} =>
          LET k == IF pc = "exec" THEN toolIdx ELSE toolIdx - 1
          IN  /\ Len(StartedIds) >= k
              /\ SubSeq(StartedIds, Len(StartedIds) - k + 1, Len(StartedIds))
                    = [i \in 1..k |-> toolCalls[i].id]

\* witness of C6: the second call of a batch is executing
C6_Witness_SecondCallExecuting ==
    /\ pc = "exec"
    /\ toolIdx = 2
    /\ Len(RecordedIds) >= 1

\* the tool events of a stream are groups tool_call, (spread_laid,) tool_result
\* of one tool call; only the last group may still lack its tool_result
RECURSIVE WellPaired(_)
WellPaired(s) ==
    \/ s = <<>>
    \/ /\ Len(s) = 1
       /\ s[1].type = "tool_call"
    \/ /\ Len(s) >= 2
       /\ s[1].type = "tool_call"
       /\ s[2].type = "tool_result"
       /\ s[2].name = s[1].name
       /\ WellPaired(SubSeq(s, 3, Len(s)))
    \/ /\ Len(s) >= 3
       /\ s[1].type = "tool_call"
       /\ s[2].type = "spread_laid"
       /\ s[3].type = "tool_result"
       /\ s[3].name = s[1].name
       /\ WellPaired(SubSeq(s, 4, Len(s)))

\* C7: every executed tool call has exactly one tool_call event before it runs
\* and exactly one tool_result event after it, both before the tool_call event
\* of the next call; a spread_laid event is a separate event between the two.
C7_OneCallOneResultPerTool ==
    LET toolEvents == SelectSeq(events, IsToolEvent)
    IN  /\ WellPaired(toolEvents)
        /\ \A i, j \in 1..Len(StartedIds) : StartedIds[i] = StartedIds[j] => i = j
        /\ \A k \in 1..Len(RecordedIds) :
              Cardinality({ i \in 1..Len(events) :
                  events[i].type = "tool_call" /\ events[i].id = RecordedIds[k] }) = 1
        /\ CountType(events, "tool_result") = Len(RecordedIds)
        /\ pc = "exec" <=>
              (toolEvents # <<>> /\ Last(toolEvents).type = "tool_call")

\* witness of C7: a draw laid a spread between its two events and a further
\* tool call followed
C7_Witness_SpreadLaidBetween ==
    \E i \in 1..Len(events) :
        /\ i + 3 <= Len(events)
        /\ events[i].type = "tool_call"
        /\ events[i + 1].type = "spread_laid"
        /\ events[i + 2].type = "tool_result"
        /\ \E j \in (i + 3)..Len(events) : events[j].type = "tool_call"

\* C8: a valid request is answered with exactly n draws or fails; a shorter
\* draws list is never returned as a success.
C8_ExactlyNDrawsOrFailure ==
    status = 200 => Len(draws) = n

\* C9: with allowDuplicates = false no cardId occurs twice among the draws.
C9_NoRepeatedCard ==
    ~allowDuplicates =>
        \A i, j \in 1..Len(draws) : draws[i].cardId = draws[j].cardId => i = j

\* witness of C9: a returned unique draw whose cards came from two tiers
C9_Witness_TwoTiers ==
    /\ status = 200
    /\ ~allowDuplicates
    /\ Len(draws) = 2
    /\ drawnBy[1] # drawnBy[2]

\* C10: the tiers are tried in the order qrng, random_org, fallback; a tier is
\* invoked only while fewer than n draws are accepted; a tier that throws is
\* recorded as failed, keeps the accepted draws and lets the call go on.
C10_CascadeOrderAndFallThrough ==
    /\ [](\A i \in 1..Len(attempts) :
             /\ i <= 3
             /\ attempts[i].method = <<"qrng", "random_org", "fallback">>[i])
    /\ [][ /\ (dpc = "tiers" /\ (dpc' = "numbers" \/ attempts' # attempts))
                => Len(draws) < n
           /\ (Len(attempts') > Len(attempts) /\ ~Last(attempts').success)
                => /\ attempts' = Append(attempts, Last(attempts'))
                   /\ draws' = draws
                   /\ status' = 0
                   /\ dpc' = "tiers"
                   /\ tier' = tier + 1 ]_vars

\* witness of C10: the first tier gave a draw, the second threw, the third
\* completed the draw
C10_Witness_ThrowBetweenTiers ==
    /\ status = 200
    /\ Len(attempts) = 3
    /\ attempts[1].success
    /\ ~attempts[2].success
    /\ attempts[3].success
    /\ drawnBy = <<"qrng", "fallback">>

\* C11: provenance.method_used of a complete answer names a tier that
\* contributed draws to it; when tier 1 throws and tier 2 succeeds it is tier 2's
\* identifier, attempts has at least 2 entries and the first has success = false.
C11_MethodUsedNamesContributingTier ==
    (status = 200 /\ Len(draws) = n) =>
        /\ \E i \in 1..Len(drawnBy) : drawnBy[i] = MethodUsed(attempts)
        /\ (Len(attempts) >= 2 /\ ~attempts[1].success /\ attempts[2].success)
              => MethodUsed(attempts) = "random_org"

\* C12: a request with n < 1, or with allowDuplicates = false and n > 78, is
\* answered with status 400 and no entropy tier is invoked nor any draw made for it.
C12_InvalidRequestRejectedBeforeDraw ==
    (n < 1 \/ (~allowDuplicates /\ n > 78)) =>
        /\ attempts = <<>>
        /\ draws = <<>>
        /\ pending = 0
        /\ dpc \in {"post", "done"}
        /\ dpc = "done" => status = 400

\* witness of C12: a request for 79 unique cards was answered with 400
C12_Witness_SeventyNineUnique ==
    /\ status = 400
    /\ n = 79
    /\ ~allowDuplicates

\* the card entries among the chunks yielded, in the order they were yielded
IsCardEntry(c) == c.kind = "card"
CardEntries == SelectSeq(yielded, IsCardEntry)

IsThinkingText(e) == e.type = "text" /\ e.content \notin {"mini", "sep"}

\* C14: every chunk yielded by the Interpretation Handoff is forwarded to the
\* caller as a text event, unmodified, exactly once and in the order yielded.
C14_ChunksForwardedVerbatimInOrder ==
    [][ /\ handoffs' = handoffs + 1 =>
              /\ Len(events') >= Len(events) + Len(interpretation') + 2
              /\ \A k \in 1..Len(interpretation') :
                    events'[Len(events) + 1 + k] = TextEvent(interpretation'[k])
              /\ Len(SelectSeq(events', IsThinkingText))
                    = Len(SelectSeq(events, IsThinkingText)) + Len(interpretation')
        /\ handoffs' = handoffs =>
              SelectSeq(events', IsThinkingText) = SelectSeq(events, IsThinkingText) ]_vars

\* witness of C14: a handoff whose stream failed after its first chunk was forwarded
C14_Witness_ChunksThenFallback ==
    /\ handoffs = 1
    /\ interpretation = <<"think1", "fallback">>
    /\ Len(SelectSeq(events, IsThinkingText)) = 2

\* C15: a tool call with an unknown name, or request_interpretation without an
\* active spread, gets a textual sentinel as its tool result; no handoff is
\* invoked for it and the Turn goes on with the remaining tool calls or the
\* next iteration.
C15_SentinelAndTurnContinues ==
    [][ ( /\ pc = "exec"
          /\ \/ CurrentToolCall.name \notin {"list_spreads", "draw_cards", "request_interpretation"}
             \/ /\ CurrentToolCall.name = "request_interpretation"
                /\ ~hasCalledInterpretation
                /\ currentActiveSpread = NoSpread )
        => LET sentinel == IF CurrentToolCall.name = "request_interpretation"
                           THEN NoSpreadLaid ELSE UnknownTool
           IN  /\ events' = Append(events, Event("tool_result", 0, CurrentToolCall.name,
                                                 sentinel, 0))
               /\ openaiMessages' = Append(openaiMessages,
                      [role |-> "tool", id |-> CurrentToolCall.id, content |-> sentinel])
               /\ handoffs' = handoffs
               /\ thinkingCalls' = thinkingCalls
               /\ currentLedger' = currentLedger
               /\ closed' = FALSE
               /\ pc' = IF toolIdx < Len(toolCalls) THEN "tools" ELSE "loop"
               /\ toolIdx' = toolIdx + 1 ]_vars

\* witness of C15: both sentinels were returned in a Turn that then called the
\* model again and ended normally
C15_Witness_TurnWentOnAfterSentinels ==
    /\ closed
    /\ Last(events).type = "done"
    /\ \E i, j \in 1..Len(openaiMessages) :
          /\ openaiMessages[i].content = UnknownTool
          /\ openaiMessages[j].content = NoSpreadLaid
          /\ \E k \in 1..Len(openaiMessages) :
                /\ k > i
                /\ k > j
                /\ openaiMessages[k].role = "assistant"

C17_ListSpreadsResultNotPersisted ==
    \A k \in 1..Len(requests) :
        \A i \in 1..Len(requests[k].messages) :
            LET m == requests[k].messages[i]
            IN  /\ DOMAIN m = {"role", "content"}
                /\ \A j \in 1..Len(m.content) : m.content[j] # "spreads_json"

\* witness of C17: the second request of a session was sent after a Turn that
\* ran list_spreads, and carries the answer of that Turn
C17_Witness_RequestAfterListSpreads ==
    /\ Len(requests) = 2
    /\ \E i \in 1..Len(messages) :
          /\ messages[i].role = "assistant"
          /\ \E j \in 1..Len(messages[i].toolResults) :
                /\ messages[i].toolResults[j].name = "list_spreads"
                /\ messages[i].toolResults[j].result = "spreads_json"
          /\ \E q \in 1..Len(requests[2].messages) :
                /\ requests[2].messages[q].role = "assistant"
                /\ requests[2].messages[q].content = messages[i].content

\* summarization was attempted for the call and gave no summary
SummarizationFailed(c) == calls[c].summarization \in {"not ok", "throws", "no summary"}

\* C18: when summarization fails or reports that none was performed although
\* the user/assistant messages exceed the threshold, the /chat request that
\* follows carries exactly the 20 most recent user/assistant messages and the
\* summary stored before, which stays as it was.
C18_FailedSummarizationSendsBoundedSlice ==
    /\ \A k \in 1..Len(requests) :
          LET c == requests[k].call
              chat == ChatMessages(calls[c].newMessages)
          IN  SummarizationFailed(c) =>
                 /\ Len(chat) > 20
                 /\ Len(requests[k].messages) = 20
                 /\ \A i \in 1..20 :
                       /\ requests[k].messages[i].role = chat[Len(chat) - 20 + i].role
                       /\ requests[k].messages[i].content = chat[Len(chat) - 20 + i].content
                 /\ requests[k].conversationSummary = calls[c].seen.conversationSummary
    /\ \A c \in 1..Len(calls) :
          (SummarizationFailed(c) /\ calls[c].cpc = "post") =>
              conversationSummary = calls[c].seen.conversationSummary

\* witness of C18: 22 user/assistant messages, the summarization failed, and the
\* request went out with the stored summary
C18_Witness_SliceOfTwentyTwo ==
    \E k \in 1..Len(requests) :
        /\ SummarizationFailed(requests[k].call)
        /\ Len(ChatMessages(calls[requests[k].call].newMessages)) = 22
        /\ requests[k].conversationSummary = "summary0"
        /\ requests[k].messages[1].content = <<"3">>

\* C19: once a Turn has completed an interpretation for a reading, the ledger
\* carried by every following /chat request of the session holds an entry for
\* that reading.
C19_LedgerCarriesInterpretedReadings ==
    [][ requests' # requests =>
            \A r \in interpreted :
                \E i \in 1..Len(Last(requests').spreadLedger) :
                    Last(requests').spreadLedger[i] = r ]_vars

\* the sendMessage calls that got past the guard and have not ended
InFlight == { c \in 1..Len(calls) : calls[c].cpc \in {"summarizeIfNeeded", "post", "reading"} }

\* C20: the caller serializes the Turns of a session: while a /chat request
\* issued by sendMessage is in flight a further sendMessage call returns at
\* once and starts no new /chat request.
C20_TurnsSerializedByCaller ==
    /\ [](Cardinality(InFlight) <= 1)
    /\ [](isLoading <=> InFlight # {})
    /\ [][ (InFlight # {} /\ nextCall' = nextCall + 1) =>
              /\ calls'[nextCall].cpc \in {"blank", "busy"}
              /\ requests' = requests
              /\ messages' = messages
              /\ InFlight' = InFlight ]_vars

\* witness of C20: a call was turned away while the stream of another was read
C20_Witness_CallTurnedAway ==
    \E c, d \in 1..Len(calls) :
        /\ calls[c].cpc = "reading"
        /\ calls[c].pos > 1
        /\ calls[d].cpc = "busy"

C22_AddedSpreadBecomesActive ==
    [][ Len(spreadHistory') = Len(spreadHistory) + 1 =>
            /\ currentSpreadIndex' = Len(spreadHistory') - 1
            /\ activeSpread' = Last(spreadHistory') ]_vars

\* C23 as stated: a raw value v contributes to a draw only if v < 65436, every
\* accepted v yields cardId = (v mod 156) mod 78 and (reversals allowed)
\* reversed = ((v mod 156) >= 78), and the draws stand in the order in which
\* their values were accepted.
C23_OnlyValuesBelow65436Contribute ==
    /\ Len(drawnFrom) = Len(draws)
    /\ \A i \in 1..Len(draws) :
          LET v == drawnFrom[i]
          IN  /\ v < 65436
              /\ draws[i].cardId = (v % 156) % 78
              /\ draws[i].reversed = (allowReversals /\ (v % 156) >= 78)

\* C23 as amended: the same with the limit floor(65536 / 156) * 156 = 65520.
C23_OnlyValuesBelow65520Contribute ==
    /\ Len(drawnFrom) = Len(draws)
    /\ \A i \in 1..Len(draws) :
          LET v == drawnFrom[i]
          IN  /\ v < 65520
              /\ draws[i].cardId = (v % 156) % 78
              /\ draws[i].reversed = (allowReversals /\ (v % 156) >= 78)

\* witness of C23: n = 2 with duplicates and reversals allowed was answered from
\* the values 10 and 65440, in that order: card 10 upright, then card 76 upright
C23_Witness_TenThen65440 ==
    /\ status = 200
    /\ n = 2
    /\ allowDuplicates
    /\ allowReversals
    /\ drawnFrom = <<10, 65440>>
    /\ draws = << [cardId |-> 10, reversed |-> FALSE], [cardId |-> 76, reversed |-> FALSE] >>

\* C24: the input of the interpretation model is built from the facts the
\* conversation model saw in the Turn: the active spread, the ledger, the
\* conversation summary and the trailing message history of the request.
C24_HandoffInputCarriesSameFacts ==
    handoffs > 0 =>
        LET prompt == buildInterpretationPrompt(context)
        IN  /\ \E i \in 1..Len(prompt) :
                  prompt[i].kind = "cards drawn" /\ prompt[i].spread = context.activeSpread
            /\ request.spreadLedger # <<>> =>
                  \E i \in 1..Len(prompt) :
                      prompt[i].kind = "ledger" /\ IsPrefix(request.spreadLedger, prompt[i].ledger)
            /\ Truthy(request.conversationSummary) =>
                  \E i \in 1..Len(prompt) : prompt[i].summary = request.conversationSummary
            /\ \E i \in 1..Len(prompt) :
                  /\ prompt[i].messages # <<>>
                  /\ prompt[i].messages = LastK(request.messages, Len(prompt[i].messages))

\* place of a section in the system context
SectionRank(kind) ==
    CASE kind = "summary" -> 1
      [] kind = "spread"  -> 2
      [] kind = "ledger"  -> 3
      [] OTHER            -> 0

\* C25: the system context of an accepted request is the persona text followed
\* by the summary section, the active-spread section and the ledger section in
\* that order, each present exactly when its input is present (a non-empty
\* summary, a spread, a non-empty ledger), each right after a section marker,
\* and each carrying its input unchanged, so that the inputs determine the text.
C25_SystemContextLayout ==
    chatStatus = 200 =>
        /\ Len(systemContent) % 2 = 1
        /\ systemContent[1] = PersonaText
        /\ \A i \in 2..Len(systemContent) :
              IF i % 2 = 0
              THEN systemContent[i] = SectionMarker
              ELSE SectionRank(systemContent[i].kind) > 0
        /\ \A i, j \in 2..Len(systemContent) :
              (i < j /\ i % 2 = 1 /\ j % 2 = 1) =>
                  SectionRank(systemContent[i].kind) < SectionRank(systemContent[j].kind)
        /\ Truthy(request.conversationSummary) <=>
              \E i \in 1..Len(systemContent) : systemContent[i].kind = "summary"
        /\ request.activeSpread # NoSpread <=>
              \E i \in 1..Len(systemContent) : systemContent[i].kind = "spread"
        /\ request.spreadLedger # <<>> <=>
              \E i \in 1..Len(systemContent) : systemContent[i].kind = "ledger"
        /\ \A i \in 1..Len(systemContent) :
              /\ systemContent[i].kind = "summary" =>
                    systemContent[i].summary = request.conversationSummary
              /\ systemContent[i].kind = "spread" =>
                    systemContent[i].spread = request.activeSpread
              /\ systemContent[i].kind = "ledger" =>
                    systemContent[i].ledger = request.spreadLedger

\* witness of C25: a Turn ended whose system context held all three sections
C25_Witness_AllThreeSections ==
    /\ closed
    /\ Len(systemContent) = 7
    /\ systemContent[3].kind = "summary"
    /\ systemContent[5].kind = "spread"
    /\ systemContent[7].kind = "ledger"

\* the spread the Turn has on the table according to what it was given and
\* what it announced: the reading of the last spread_laid event, or else the
\* active spread of the request
SpreadOnTable(evs) ==
    IF \E i \in 1..Len(evs) : evs[i].type = "spread_laid"
    THEN evs[CHOOSE i \in 1..Len(evs) :
                /\ evs[i].type = "spread_laid"
                /\ \A j \in (i + 1)..Len(evs) : evs[j].type # "spread_laid"].reading
    ELSE request.activeSpread

\* C26: a successful draw_cards makes a new spread the Turn's active spread
\* and leaves the spread of the request and the ledger as they were; a
\* request_interpretation executed later in the Turn hands the spread drawn
\* last to the Interpretation Handoff.
C26_DrawReplacesSpreadForHandoff ==
    /\ [](pc # "idle" => currentActiveSpread = SpreadOnTable(events))
    /\ [][ CountType(events', "spread_laid") = CountType(events, "spread_laid") + 1 =>
              /\ currentActiveSpread' # currentActiveSpread
              /\ currentActiveSpread' # request.activeSpread
              /\ \A i \in 1..Len(events) : events[i].reading # currentActiveSpread'
              /\ \A i \in 1..Len(currentLedger) : currentLedger[i] # currentActiveSpread'
              /\ request' = request
              /\ currentLedger' = currentLedger
              /\ context' = context ]_vars
    /\ [][ handoffs' = handoffs + 1 =>
              /\ context'.activeSpread = SpreadOnTable(events)
              /\ context'.activeSpread # NoSpread
              /\ currentActiveSpread' = currentActiveSpread ]_vars

\* witness of C26: the request came with spread 1, the Turn drew spread 2 and
\* the handoff that followed was given spread 2
C26_Witness_NewSpreadInterpreted ==
    /\ request.activeSpread = 1
    /\ CountType(events, "spread_laid") = 1
    /\ handoffs = 1
    /\ context.activeSpread = 2
    /\ currentLedger = <<2>>

\* C27: when a summarization succeeds the stored history becomes exactly the
\* last 3 messages the hook held (of any role) and the stored summary becomes
\* the summary just returned, by itself; both stay so until the /chat request.
C27_SummarizationReplacesHistoryAndSummary ==
    /\ [](\A c \in 1..Len(calls) :
             (calls[c].summarization = "ok" /\ calls[c].cpc = "post") =>
                 LET all == calls[c].newMessages
                 IN  /\ Len(messages) = 3
                     /\ \A i \in 1..3 : messages[i] = all[Len(all) - 3 + i]
                     /\ conversationSummary = calls[c].summary
                     /\ conversationSummary = NewSummary(c)
                     /\ conversationSummary # calls[c].seen.conversationSummary)
    /\ [][ \A c \in 1..Len(calls) :
              (calls[c].summarization # "ok" /\ calls'[c].summarization = "ok") =>
                  /\ Len(messages') = 3
                  /\ conversationSummary' = calls'[c].summary ]_vars

\* witness of C27: a session that held a summary and 21 messages summarized
\* again: three messages and the new summary are stored
C27_Witness_SecondSummaryStored ==
    \E c \in 1..Len(calls) :
        /\ calls[c].summarization = "ok"
        /\ calls[c].cpc = "post"
        /\ calls[c].seen.conversationSummary = "summary0"
        /\ Len(calls[c].newMessages) = 22
        /\ Len(messages) = 3
        /\ conversationSummary = NewSummary(c)

\* C28: summarization loses no user or assistant message: at the /chat request
\* that follows a successful summarization every user/assistant message the
\* hook held was either in the input of the summarizer call (the messages it
\* summarized, a prefix of them) or is among the messages sent (a suffix).
C28_SummarizationLosesNoMessage ==
    \A k \in 1..Len(requests) :
        LET c == requests[k].call
            chat == ApiMessages(ChatMessages(calls[c].newMessages))
            sent == requests[k].messages
        IN  calls[c].summarization = "ok" =>
                /\ IsPrefix(calls[c].summarized, chat)
                /\ sent = LastK(chat, Len(sent))
                /\ Len(calls[c].summarized) + Len(sent) >= Len(chat)

\* C29: the static "already provided" result is given to a
\* request_interpretation call only if the Interpretation Handoff was invoked
\* earlier in the same Turn; a call that was rejected for lack of a spread
\* does not make a later call be answered "already provided".
C29_AlreadyProvidedOnlyAfterHandoff ==
    [][ (/\ pc = "exec"
         /\ Len(events') = Len(events) + 1
         /\ Last(events').type = "tool_result"
         /\ Last(events').content = AlreadyProvided)
        => handoffs >= 1 ]_vars

\* C30: a tool call whose argument text is not valid JSON affects only that
\* call: it gets a tool result and the Turn goes on; the Turn does not end at
\* that call with an error event, the call and those after it unexecuted.
C30_MalformedArgumentsAffectOneCall ==
    /\ [][ (pc = "tools" /\ CurrentToolCall.args = "malformed") =>
              /\ ~closed'
              /\ Last(events').type # "error" ]_vars
    /\ [](\A i \in 1..Len(toolCalls) :
             (pc \in {"loop", "closed"} /\ toolCalls[i].args = "malformed") =>
                 \E k \in 1..Len(openaiMessages) :
                     openaiMessages[k].role = "tool" /\ openaiMessages[k].id = toolCalls[i].id)

\* the argument fragments a stream carries for index i, concatenated in order
RECURSIVE FragmentsOf(_, _)
FragmentsOf(str, i) ==
    IF str = <<>> THEN <<>>
    ELSE (IF Head(str).index = i THEN Head(str).arguments ELSE <<>>)
           \o FragmentsOf(Tail(str), i)

\* C31: each assembled tool call has the id and the name first streamed for
\* its index, and as arguments all fragments streamed for that index in
\* order, however the deltas of the indices are interleaved; a step of the
\* assembly never discards fragments it has accumulated.
C31_ToolCallsAssembledFromAllFragments ==
    /\ [](apc = "done" =>
            \A i \in 0..MaxToolIndex :
               PositionsOf(deltaStream, i) # {} =>
                  /\ i + 1 <= Len(assembled)
                  /\ assembled[i + 1].id = IdOfIndex(i)
                  /\ assembled[i + 1].name = NameOfIndex(i)
                  /\ assembled[i + 1].arguments = FragmentsOf(deltaStream, i))
    /\ [][\A k \in 1..Len(assembled) :
             /\ k <= Len(assembled')
             /\ IsPrefix(assembled[k].arguments, assembled'[k].arguments)]_vars

\* a laid spread has exactly one card for each of its positions
OneCardPerPosition(sp) ==
    /\ Len(sp.cards) = sp.positions
    /\ \A p \in 0..(sp.positions - 1) :
          Cardinality({ j \in 1..Len(sp.cards) : sp.cards[j] = p }) = 1

\* C32: every spread delivered in a spread_laid event, and stored as the
\* active spread, has exactly one card for each position of its spread.
C32_LaidSpreadHasOneCardPerPosition ==
    \A i \in 1..Len(laid) :
       ((\E k \in 1..Len(events) :
            events[k].type = "spread_laid" /\ events[k].reading = laid[i].reading)
          \/ currentActiveSpread = laid[i].reading)
       => OneCardPerPosition(laid[i])

\* C33: within one Interpretation Handoff the caller receives either chunks
\* of the interpretation model or the fallback text, never chunks of the
\* model followed by the fallback text.
C33_ModelChunksOrFallbackNeverBoth ==
    \A i, j \in 1..Len(yielded) :
       (i < j /\ yielded[i].kind = "model") =>
           yielded[j].kind \notin {"intro", "card", "outro"}

\* C34 (as stated): summarizeConversation performs no summarization whenever
\* the message count is at most the threshold; otherwise, on provider success,
\* messagesRemoved equals the message count minus keepRecent.
C34_MessagesRemovedIsCountMinusKeepRecent ==
    (upc = "done" /\ sumStatus = 200) =>
       /\ Len(sumBody.messages) <= Threshold(sumBody) => sumResult.returned = "null"
       /\ sumResult.returned = "result" =>
             sumResult.messagesRemoved = Len(sumBody.messages) - KeepRecent(sumBody)

\* C34 (amended): no summarization whenever the message count is at most the
\* threshold; otherwise, on provider success, messagesRemoved is the message
\* count minus keepRecent where that is positive and 0 where keepRecent is
\* the count or more (for a negative keepRecent: its absolute value, at most
\* the count); it depends on nothing but the count and keepRecent.
C34_MessagesRemovedIsClampedDifference ==
    (upc = "done" /\ sumStatus = 200) =>
       /\ Len(sumBody.messages) <= Threshold(sumBody) => sumResult.returned = "null"
       /\ sumResult.returned = "result" =>
             LET count == Len(sumBody.messages)
                 keep  == KeepRecent(sumBody)
             IN  sumResult.messagesRemoved =
                    IF keep > 0
                    THEN (IF count - keep > 0 THEN count - keep ELSE 0)
                    ELSE (IF 0 - keep < count THEN 0 - keep ELSE count)

\* witness of C34: a summary was returned for a request that keeps more
\* messages than it carries
C34_Witness_KeepsMoreThanItHas ==
    /\ upc = "done"
    /\ sumResult.returned = "result"
    /\ KeepRecent(sumBody) > Len(sumBody.messages)
    /\ sumResult.messagesRemoved = 0

\* C35: within a Turn the ledger changes only by appending: the entries it
\* has (those of the request included) are never modified, removed or
\* reordered, and each completed interpretation appends exactly one entry,
\* whose reading id is that of the interpreted spread.
C35_LedgerOnlyAppendedOncePerInterpretation ==
    [][ pc # "idle" =>
          /\ IsPrefix(currentLedger, currentLedger')
          /\ handoffs' = handoffs + 1 =>
                currentLedger' = Append(currentLedger, currentActiveSpread)
          /\ handoffs' = handoffs => currentLedger' = currentLedger ]_vars

\* C36: draw_cards with a slug that does not resolve, or with neither a slug
\* nor a non-empty custom position list, fails without a request to the Draw
\* Engine; any failed draw_cards leaves the active spread of the Turn as it
\* was and sends no spread_laid event.
C36_FailedDrawChangesNothing ==
    [][ (pc = "exec" /\ CurrentToolCall.name = "draw_cards") =>
          /\ Last(events').type = "tool_result"
          /\ Last(events').content \in {UnknownSpread, NoSpreadGiven} =>
                drawRequests' = drawRequests
          /\ Last(events').content # "spread_text" =>
                /\ currentActiveSpread' = currentActiveSpread
                /\ CountType(events', "spread_laid") = CountType(events, "spread_laid") ]_vars

\* witness of C36: a draw_cards call named an unknown spread while a spread
\* was active, and the Draw Engine was never asked
C36_Witness_UnknownSlugWithActiveSpread ==
    /\ \E k \in 1..Len(events) :
          events[k].type = "tool_result" /\ events[k].content = UnknownSpread
    /\ currentActiveSpread # NoSpread
    /\ drawRequests = 0

\* C37: with allowReversals = false every returned draw has reversed = false,
\* and the cardId sequence is the one the same entropy values give with
\* allowReversals = true: the orientation is collapsed after sampling,
\* nothing is drawn again.
C37_ReversalsCollapsedAfterSampling ==
    /\ ~allowReversals => \A i \in 1..Len(draws) : draws[i].reversed = FALSE
    /\ Len(draws) = Len(twin.draws)
    /\ \A i \in 1..Len(draws) : draws[i].cardId = twin.draws[i].cardId

\* witness of C37: a request without reversals was answered in full, and one
\* of its values would have been a reversed card
C37_Witness_ReversedValueCollapsed ==
    /\ ~allowReversals
    /\ status = 200
    /\ Len(draws) = n
    /\ \E i \in 1..Len(twin.draws) : twin.draws[i].reversed

C39_ReadingNeverFedToModel ==
    \A i \in 1..Len(openaiMessages) :
       LET m == openaiMessages[i]
       IN  (m.role = "tool"
              /\ \E k \in 1..Len(events) :
                    /\ events[k].type = "tool_call"
                    /\ events[k].id = m.id
                    /\ events[k].name = "draw_cards")
           => /\ m.content \in {"spread_text", UnknownSpread, NoSpreadGiven, DrawFailed}
              /\ DOMAIN m = {"role", "id", "content"}

\* witness of C39: a spread was laid and announced to the caller, and the
\* result of its draw_cards call was recorded for the model
C39_Witness_SpreadLaidAndRecorded ==
    /\ CountType(events, "spread_laid") = 1
    /\ \E i \in 1..Len(openaiMessages) :
          openaiMessages[i].role = "tool" /\ openaiMessages[i].content = "spread_text"
    /\ pc = "loop"

====
